---- MODULE Spec2Model ----
(***************************************************************************)
(* Model of windows-projfs: the lifecycle of a ProjectedFileSystem (new,   *)
(* Drop), the shared ProjectionContext behind its mutex, and the native    *)
(* callbacks (directory enumeration, placeholder info, file data,          *)
(* notification) that the host engine runs on its own worker threads.      *)
(***************************************************************************)
EXTENDS Integers, Sequences, FiniteSets, TLC

(* ------------------------------ bounds -------------------------------- *)
\* callbacks the engine invokes, on any of its threads, over the life of
\* the instance
MaxCalls == 2
\* callbacks of a host that invokes them one after the other
MaxSerialCalls == 4
\* largest number of entries one output buffer of a Get can take
MaxCap == 2
\* width of the unsigned integers of an entry (u64 in the source, scaled)
IntBits == 4

\* engine worker threads that can be inside a callback at the same time
Threads == {1, 2}
NoThread == 0
\* enumeration ids (GUIDs) the engine uses
Ids == {1, 2}

(* ------------------------------ options ------------------------------- *)
\* Option<T>: None is the empty sequence, Some(x) the one-element sequence
None == << >>
Some(x) == << x >>
IsSome(o) == o # << >>
Unwrap(o) == o[1]

EmptyMap == [x \in {} |-> x]
MapInsert(m, k, v) == [x \in (DOMAIN m) \cup {k} |-> IF x = k THEN v ELSE m[x]]
MapRemove(m, k) == [x \in (DOMAIN m) \ {k} |-> m[x]]

(* --------------------------- names and host --------------------------- *)
\* UTF-16 code units: 'B' = 66, 'a' = 97, 'b' = 98, '*' = 42, '?' = 63
NameLowerB == << 98 >>
NameUpperB == << 66 >>
NameA == << 97 >>
Names == {NameLowerB, NameUpperB, NameA}

\* FileNameU16Cache::get_or_cache, vacant branch: encode_utf16 and push(0)
EncodeWide(name) == Append(name, 0)

\* PCWSTR::as_wide: the code units before the first terminator
as_wide(w) ==
    LET n == CHOOSE i \in 1..Len(w) : w[i] = 0 /\ \A j \in 1..(i - 1) : w[j] # 0
    IN  SubSeq(w, 1, n - 1)

\* the host compares and matches names without regard to case
Fold(c) == IF c \in 97..122 THEN c - 32 ELSE c

RECURSIVE CompareUnits(_, _)
CompareUnits(a, b) ==
    IF a = << >> /\ b = << >> THEN 0
    ELSE IF a = << >> THEN -1
    ELSE IF b = << >> THEN 1
    ELSE IF Fold(Head(a)) < Fold(Head(b)) THEN -1
    ELSE IF Fold(Head(a)) > Fold(Head(b)) THEN 1
    ELSE CompareUnits(Tail(a), Tail(b))

\* PrjFileNameCompare on two zero-terminated names: <0, 0 or >0
prj_file_name_compare(wa, wb) == CompareUnits(as_wide(wa), as_wide(wb))

RECURSIVE MatchUnits(_, _)
MatchUnits(n, p) ==
    IF p = << >> THEN n = << >>
    ELSE IF Head(p) = 42
         THEN MatchUnits(n, Tail(p)) \/ (n # << >> /\ MatchUnits(Tail(n), p))
         ELSE /\ n # << >>
              /\ (Head(p) = 63 \/ Fold(Head(p)) = Fold(Head(n)))
              /\ MatchUnits(Tail(n), Tail(p))

\* PrjFileNameMatch on a zero-terminated name and a zero-terminated pattern
prj_file_name_match(wname, wpat) == MatchUnits(as_wide(wname), as_wide(wpat))

(* --------------------------- directory entries ------------------------ *)
FileEntry(name, size, attrs, c, a, w) ==
    [kind |-> "File", name |-> name, size |-> size, attributes |-> attrs,
     creation_time |-> c, last_access_time |-> a, last_write_time |-> w]
DirEntry(name, attrs, c, a, w) ==
    [kind |-> "Directory", name |-> name, attributes |-> attrs,
     creation_time |-> c, last_access_time |-> a, last_write_time |-> w]

\* the entries the Data Source can answer with: the host orders "a" before
\* "B", a comparison by code unit would not
EntryPool ==
    { DirEntry(NameUpperB, 16, 4, 5, 6),
      FileEntry(NameA, 9, 33, 7, 8, 10) }

RECURSIVE SeqsUpTo(_, _)
SeqsUpTo(S, n) ==
    IF n = 0 THEN { << >> }
    ELSE LET shorter == SeqsUpTo(S, n - 1)
         IN  shorter \cup { Append(s, x) : s \in shorter, x \in S }

IsInjective(s) == \A i, j \in 1..Len(s) : i # j => s[i] # s[j]

\* what list_directory may return: the entries of a directory, in any order
Listings == { s \in SeqsUpTo(EntryPool, Cardinality(EntryPool)) : IsInjective(s) }

\* the directories the Data Source knows: the root and one sub-directory
RootPath == << >>
SubPath == << NameUpperB >>
DirPaths == {RootPath, SubPath}

\* `as i64` of an unsigned value, and the host's view of it as unsigned again
AsSigned(x) == IF x >= 2 ^ (IntBits - 1) THEN x - 2 ^ IntBits ELSE x
AsUnsigned(x) == IF x < 0 THEN x + 2 ^ IntBits ELSE x

\* a get_basic_info that takes the access time from last_write_time too
get_basic_info_write_time(e) ==
    IF e.kind = "Directory"
    THEN [IsDirectory |-> TRUE, FileSize |-> 0, FileAttributes |-> e.attributes,
          CreationTime |-> AsSigned(e.creation_time),
          LastAccessTime |-> AsSigned(e.last_write_time),
          LastWriteTime |-> AsSigned(e.last_write_time),
          ChangeTime |-> AsSigned(e.last_write_time)]
    ELSE [IsDirectory |-> FALSE, FileSize |-> AsSigned(e.size),
          FileAttributes |-> e.attributes,
          CreationTime |-> AsSigned(e.creation_time),
          LastAccessTime |-> AsSigned(e.last_write_time),
          LastWriteTime |-> AsSigned(e.last_write_time),
          ChangeTime |-> AsSigned(e.last_write_time)]

\* a get_basic_info that takes the change time from the creation time
get_basic_info_change_is_creation(e) ==
    IF e.kind = "Directory"
    THEN [IsDirectory |-> TRUE, FileSize |-> 0, FileAttributes |-> e.attributes,
          CreationTime |-> AsSigned(e.creation_time),
          LastAccessTime |-> AsSigned(e.last_access_time),
          LastWriteTime |-> AsSigned(e.last_write_time),
          ChangeTime |-> AsSigned(e.creation_time)]
    ELSE [IsDirectory |-> FALSE, FileSize |-> AsSigned(e.size),
          FileAttributes |-> e.attributes,
          CreationTime |-> AsSigned(e.creation_time),
          LastAccessTime |-> AsSigned(e.last_access_time),
          LastWriteTime |-> AsSigned(e.last_write_time),
          ChangeTime |-> AsSigned(e.creation_time)]

\* DirectoryEntry::get_basic_info
get_basic_info(e) ==
    IF e.kind = "Directory"
    THEN [IsDirectory |-> TRUE, FileSize |-> 0, FileAttributes |-> e.attributes,
          CreationTime |-> AsSigned(e.creation_time),
          LastAccessTime |-> AsSigned(e.last_access_time),
          LastWriteTime |-> AsSigned(e.last_write_time),
          ChangeTime |-> AsSigned(e.last_write_time)]
    ELSE [IsDirectory |-> FALSE, FileSize |-> AsSigned(e.size),
          FileAttributes |-> e.attributes,
          CreationTime |-> AsSigned(e.creation_time),
          LastAccessTime |-> AsSigned(e.last_access_time),
          LastWriteTime |-> AsSigned(e.last_write_time),
          ChangeTime |-> AsSigned(e.last_write_time)]

\* what the host reads back from an emitted record (TryFrom<DirEntry>)
HostEntry(rec) ==
    IF rec.info.IsDirectory
    THEN DirEntry(as_wide(rec.name), rec.info.FileAttributes,
                  AsUnsigned(rec.info.CreationTime),
                  AsUnsigned(rec.info.LastAccessTime),
                  AsUnsigned(rec.info.LastWriteTime))
    ELSE FileEntry(as_wide(rec.name), AsUnsigned(rec.info.FileSize),
                   rec.info.FileAttributes,
                   AsUnsigned(rec.info.CreationTime),
                   AsUnsigned(rec.info.LastAccessTime),
                   AsUnsigned(rec.info.LastWriteTime))

(* --------------------------- sorting (from_unsorted) ------------------ *)
\* the comparator closure of from_unsorted: names through the cache, then
\* the host comparison, then result.cmp(&0)
EntryCmp(a, b) == prj_file_name_compare(EncodeWide(a.name), EncodeWide(b.name))

\* insert x into the sorted sequence s behind every element not greater
RECURSIVE InsertSorted(_, _)
InsertSorted(s, x) ==
    IF s = << >> THEN << x >>
    ELSE IF EntryCmp(s[Len(s)], x) <= 0 THEN Append(s, x)
    ELSE Append(InsertSorted(SubSeq(s, 1, Len(s) - 1), x), s[Len(s)])

\* a from_unsorted that leaves the entries in the order the source gave
SortEntriesKeepsOrder(s) == s

\* entries.sort_unstable_by(...): a deterministic comparison sort; for
\* slices this short the standard library sorts by insertion
RECURSIVE SortEntries(_)
SortEntries(s) ==
    IF s = << >> THEN << >>
    ELSE InsertSorted(SortEntries(SubSeq(s, 1, Len(s) - 1)), s[Len(s)])

\* the names the comparator put into the cache while sorting
RECURSIVE NamesOf(_)
NamesOf(s) == IF s = << >> THEN {} ELSE {Head(s).name} \cup NamesOf(Tail(s))
SortCache(s) ==
    IF Len(s) < 2 THEN EmptyMap ELSE [n \in NamesOf(s) |-> EncodeWide(n)]

\* a get_or_cache that keeps nothing but the name it was asked for
get_or_cache_forgets(cache, name) ==
    MapInsert(EmptyMap, name, EncodeWide(name))

\* FileNameU16Cache::get_or_cache: the cache after the call
get_or_cache(cache, name) ==
    IF name \in DOMAIN cache THEN cache ELSE MapInsert(cache, name, EncodeWide(name))

\* DirectoryIteration::from_unsorted
from_unsorted(id, entries) ==
    [id |-> id, entries |-> SortEntries(entries), current_entry |-> 0,
     name_cache |-> SortCache(entries), search_expression |-> None]

(* ------------------------------ state --------------------------------- *)
VARIABLES
    mainpc,      \* where the owner of the instance is in new / Drop
    newResult,   \* what ProjectedFileSystem::new returned ("none" before)
    library,     \* what load_library failed on (resolver "none": it has not)
    marked,      \* the root has been marked as a placeholder root
    ctx,         \* the boxed Mutex<ProjectionContext>: "none", "live", "freed"
    frees,       \* how often the boxed context has been dropped
    engine,      \* the host engine: "off", "running", "stopping", "stopped"
    handle,      \* a ProjectedFileSystem value exists
    lock,        \* the thread holding the context mutex, NoThread if free
    cb,          \* per engine thread: the callback it is in and its locals
    sessions,    \* ProjectionContext::directory_enumerations
    hist,        \* per session: what was listed and emitted (observation)
    bufs,        \* aligned buffers allocated and not yet freed
    calls        \* number of callbacks the engine has invoked so far

vars == << mainpc, newResult, library, marked, ctx, frees, engine, handle,
           lock, cb, sessions, hist, bufs, calls >>

lifeVars == << mainpc, newResult, library, marked, ctx, frees, engine, handle >>
enumVars == << sessions, hist >>

IdleCb == [pc |-> "idle"]

\* HRESULT values the callbacks return
S_OK == "STATUS_SUCCESS"
E_FILL == "E_INVALIDARG"

\* the result of the closure handed to CallbackData::execute
Ok == [ok |-> TRUE, code |-> S_OK]
Err(code) == [ok |-> FALSE, code |-> code]

\* ProjectedFileSystemSource::list_directory: the Data Source is the
\* integrator's code and may change at any time, so a call may return any
\* listing, whatever the path
ListAnswers(path) == Listings

Init ==
    /\ mainpc = "load"
    /\ newResult = "none"
    /\ library = [resolver |-> "none"]
    /\ marked = FALSE
    /\ ctx = "none"
    /\ frees = 0
    /\ engine = "off"
    /\ handle = FALSE
    /\ lock = NoThread
    /\ cb = [t \in Threads |-> IdleCb]
    /\ sessions = EmptyMap
    /\ hist = EmptyMap
    /\ bufs = 0
    /\ calls = 0

(* --------------------- ProjectedFileSystem::new ----------------------- *)
\* OS error "The specified module could not be found"
ERROR_MOD_NOT_FOUND == 126

\* what load_library can meet: the static resolver, which has nothing to
\* load; with the dynamic one, libloading::Library::new("projectedfslib")
\* succeeds and every entry point resolves or one does not, or it fails with
\* LoadLibraryExW carrying an OS error (with or without a code), or with
\* another error of libloading
LoadOutcomes ==
    { [resolver |-> "static"],
      [resolver |-> "dynamic", load |-> "Ok", resolved |-> TRUE],
      [resolver |-> "dynamic", load |-> "Ok", resolved |-> FALSE],
      [resolver |-> "dynamic", load |-> "LoadLibraryExWUnknown"] }
    \cup { [resolver |-> "dynamic", load |-> "LoadLibraryExW", raw_os_error |-> c] :
             c \in { None, Some(ERROR_MOD_NOT_FOUND), Some(ERROR_MOD_NOT_FOUND + 1),
                     Some(5) } }

\* a load_library that takes every failed load for the missing feature
load_library_any_failure(o) ==
    IF o.resolver = "static" THEN "Ok"
    ELSE IF o.load = "Ok"
         THEN IF o.resolved THEN "Ok" ELSE "LibraryError"
         ELSE "WindowsFeatureNotEnabled"

\* lib_impl::load_library: Ok, or the error it returns
load_library(o) ==
    IF o.resolver = "static" THEN "Ok"
    ELSE IF o.load = "Ok"
         THEN IF o.resolved THEN "Ok" ELSE "LibraryError"
         ELSE IF o.load = "LoadLibraryExW"
                 /\ o.raw_os_error = Some(ERROR_MOD_NOT_FOUND)
              THEN "WindowsFeatureNotEnabled"
              ELSE "LibraryError"

\* let library = load_library()?
NewLoadLibrary ==
    /\ mainpc = "load"
    /\ \E o \in LoadOutcomes :
          IF load_library(o) = "Ok"
          THEN mainpc' = "mark" /\ newResult' = newResult /\ library' = library
          ELSE mainpc' = "failed" /\ newResult' = load_library(o) /\ library' = o
    /\ UNCHANGED << marked, ctx, frees, engine, handle, lock, cb, calls, bufs >>
    /\ UNCHANGED enumVars

\* a new that drops the `?` after marking: a failure is ignored and the
\* construction goes on
NewMarkIgnoresFailure ==
    /\ mainpc = "mark"
    /\ \E ok \in BOOLEAN :
          /\ mainpc' = "alloc"
          /\ marked' = (marked \/ ok)
          /\ newResult' = newResult
    /\ UNCHANGED << ctx, frees, engine, handle, lock, cb, calls, bufs >>
    /\ UNCHANGED << enumVars, library >>

\* prj_mark_directory_as_placeholder(...).map_err(MarkProjectionRoot)?
NewMark ==
    /\ mainpc = "mark"
    /\ \E ok \in BOOLEAN :
          IF ok
          THEN mainpc' = "alloc" /\ marked' = TRUE /\ newResult' = newResult
          ELSE mainpc' = "failed" /\ marked' = marked
               /\ newResult' = "MarkProjectionRoot"
    /\ UNCHANGED << ctx, frees, engine, handle, lock, cb, calls, bufs >>
    /\ UNCHANGED << enumVars, library >>

\* Box::new(Mutex::new(ProjectionContext { .. })), the callback table and
\* Box::into_raw(context)
NewAlloc ==
    /\ mainpc = "alloc"
    /\ ctx' = "live"
    /\ mainpc' = "start"
    /\ UNCHANGED << newResult, marked, frees, engine, handle, lock, cb, calls, bufs >>
    /\ UNCHANGED << enumVars, library >>

\* prj_start_virtualizing succeeded: the engine runs and new returns Ok(Self)
NewStartOk ==
    /\ mainpc = "start"
    /\ engine' = "running"
    /\ handle' = TRUE
    /\ newResult' = "Ok"
    /\ mainpc' = "running"
    /\ UNCHANGED << marked, ctx, frees, lock, cb, calls, bufs >>
    /\ UNCHANGED << enumVars, library >>

\* a new whose error arm returns without drop(Box::from_raw(raw_context))
NewStartFailLeaks ==
    /\ mainpc = "start"
    /\ newResult' = "StartProjection"
    /\ mainpc' = "failed"
    /\ UNCHANGED << marked, ctx, frees, engine, handle, lock, cb, calls, bufs >>
    /\ UNCHANGED << enumVars, library >>

\* prj_start_virtualizing failed: drop(Box::from_raw(raw_context)) and
\* return Err(StartProjection)
NewStartFail ==
    /\ mainpc = "start"
    /\ ctx' = "freed"
    /\ frees' = frees + 1
    /\ newResult' = "StartProjection"
    /\ mainpc' = "failed"
    /\ UNCHANGED << marked, engine, handle, lock, cb, calls, bufs >>
    /\ UNCHANGED << enumVars, library >>

(* --------------------- Drop for ProjectedFileSystem ------------------- *)
\* a Drop that frees the boxed context first and stops the engine afterwards
DropFreesBeforeStop ==
    /\ mainpc = "running"
    /\ ctx' = "freed"
    /\ frees' = frees + 1
    /\ engine' = "stopping"
    /\ mainpc' = "stopping"
    /\ UNCHANGED << newResult, marked, handle, lock, cb, calls, bufs >>
    /\ UNCHANGED << enumVars, library >>

\* the owner drops the handle: prj_stop_virtualizing is called
DropStop ==
    /\ mainpc = "running"
    /\ engine' = "stopping"
    /\ mainpc' = "stopping"
    /\ UNCHANGED << newResult, marked, ctx, frees, handle, lock, cb, calls, bufs >>
    /\ UNCHANGED << enumVars, library >>

\* prj_stop_virtualizing returns: the engine waits until every callback of
\* the instance has returned
StopReturn ==
    /\ mainpc = "stopping"
    /\ \A t \in Threads : cb[t].pc = "idle"
    /\ engine' = "stopped"
    /\ mainpc' = "stopped"
    /\ UNCHANGED << newResult, marked, ctx, frees, handle, lock, cb, calls, bufs >>
    /\ UNCHANGED << enumVars, library >>

\* a Drop without drop(Box::from_raw(self.raw_context)): the context leaks
DropForgets ==
    /\ mainpc = "stopped"
    /\ handle' = FALSE
    /\ mainpc' = "dropped"
    /\ UNCHANGED << newResult, marked, ctx, frees, engine, lock, cb, calls, bufs >>
    /\ UNCHANGED << enumVars, library >>

\* drop(Box::from_raw(self.raw_context)); the handle is gone
DropFree ==
    /\ mainpc = "stopped"
    /\ ctx' = "freed"
    /\ frees' = frees + 1
    /\ handle' = FALSE
    /\ mainpc' = "dropped"
    /\ UNCHANGED << newResult, marked, engine, lock, cb, calls, bufs >>
    /\ UNCHANGED << enumVars, library >>

(* ------------------------- callback plumbing -------------------------- *)
\* the callbacks of the table handed to prj_start_virtualizing
EnumKinds == {"Start", "Get", "End"}
Kinds == EnumKinds \cup {"Placeholder", "FileData", "Notify"}

\* the engine invokes a callback on one of its threads; CallbackData::from
\* turns InstanceContext into a reference to the context
Invoke(t) ==
    /\ engine \in {"running", "stopping"}
    /\ cb[t].pc = "idle"
    /\ calls < MaxCalls
    /\ \E kind \in Kinds :
          cb' = [cb EXCEPT ![t] = [pc |-> "entered", kind |-> kind]]
    /\ calls' = calls + 1
    /\ UNCHANGED << lock, bufs >>
    /\ UNCHANGED << lifeVars, enumVars >>

\* a host that serializes its callbacks: the next one is invoked, on its
\* first thread, once the one before has returned
FirstThread == CHOOSE t \in Threads : \A u \in Threads : t <= u
InvokeSerial(t) ==
    /\ engine = "running"
    /\ t = FirstThread
    /\ \A u \in Threads : cb[u].pc = "idle"
    /\ calls < MaxSerialCalls
    /\ \E kind \in EnumKinds :
          cb' = [cb EXCEPT ![t] = [pc |-> "entered", kind |-> kind]]
    /\ calls' = calls + 1
    /\ UNCHANGED << lock, bufs >>
    /\ UNCHANGED << lifeVars, enumVars >>

\* a lock() that does not wait for the holder
AcquireUnguarded(t) == lock' = t

\* callback_data.context.lock(): blocks until the mutex is free
Acquire(t) == lock = NoThread /\ lock' = t

\* a closure that forgets its MutexGuard: the mutex stays locked
UnlockLeaks(t) == lock' = lock

\* the MutexGuard goes out of scope at the end of the closure
Unlock(t) == lock' = NoThread

\* the thread's closure owns a PrjAlignedBuffer
HoldsBuffer(t) == "buffer" \in DOMAIN cb[t] /\ cb[t].buffer

\* a callback whose buffer is released on the success path only
ReturnFreesOnSuccessOnly(t) ==
    /\ cb[t].pc = "done"
    /\ bufs' = IF HoldsBuffer(t) /\ cb[t].result.ok THEN bufs - 1 ELSE bufs
    /\ Unlock(t)
    /\ cb' = [cb EXCEPT ![t] = IdleCb]
    /\ UNCHANGED << calls >>
    /\ UNCHANGED << lifeVars, enumVars >>

\* an execute that unwinds past the guard when the closure returned an error
ReturnErrorKeepsLock(t) ==
    /\ cb[t].pc = "done"
    /\ bufs' = IF HoldsBuffer(t) THEN bufs - 1 ELSE bufs
    /\ IF cb[t].result.ok THEN Unlock(t) ELSE lock' = lock
    /\ cb' = [cb EXCEPT ![t] = IdleCb]
    /\ UNCHANGED << calls >>
    /\ UNCHANGED << lifeVars, enumVars >>

\* the closure's locals are dropped (PrjAlignedBuffer::drop frees the
\* buffer, then the guard unlocks) and CallbackData::execute hands the
\* closure's result to the engine
Return(t) ==
    /\ cb[t].pc = "done"
    /\ bufs' = IF HoldsBuffer(t) THEN bufs - 1 ELSE bufs
    /\ Unlock(t)
    /\ cb' = [cb EXCEPT ![t] = IdleCb]
    /\ UNCHANGED << calls >>
    /\ UNCHANGED << lifeVars, enumVars >>

(* ----------------------- enumeration sessions ------------------------- *)
\* DirectoryIteration::peek_entry
peek_entry(s) ==
    IF s.current_entry < Len(s.entries)
    THEN Some(s.entries[s.current_entry + 1])
    ELSE None

\* a consume_entry that starts over when it passes the last entry
consume_entry_wraps(s) ==
    [s EXCEPT !.current_entry = IF @ + 1 >= Len(s.entries) THEN 0 ELSE @ + 1]

\* DirectoryIteration::consume_entry
consume_entry(s) == [s EXCEPT !.current_entry = @ + 1]

\* a reset_enumeration that rewinds the cursor and keeps the filter
reset_enumeration_keeps_filter(s) == [s EXCEPT !.current_entry = 0]

\* a reset_enumeration that also drops the snapshot, to have it filled anew
reset_enumeration_clears_entries(s) ==
    [s EXCEPT !.search_expression = None, !.current_entry = 0, !.entries = << >>]

\* DirectoryIteration::reset_enumeration
reset_enumeration(s) ==
    [s EXCEPT !.search_expression = None, !.current_entry = 0]

\* the search_expression argument of a Get: a null pointer (None) or a
\* pointer to a zero-terminated expression, here the empty one and "b*"
SearchArgs == { None, Some(<< 0 >>), Some(<< 98, 42, 0 >>) }

\* get_directory_enumeration_callback, before the closure: null and the
\* empty expression give None, anything else the expression plus a zero
ConvertSearch(arg) ==
    IF ~IsSome(arg) THEN None
    ELSE LET expression == as_wide(Unwrap(arg))
         IN  IF expression = << >> THEN None
             ELSE Some(Append(expression, 0))

\* a Get that stores the call's expression whether or not there is one
GetBeginAlwaysSets(s, restart, search) ==
    LET s1 == IF restart THEN reset_enumeration(s) ELSE s
    IN  [s1 EXCEPT !.search_expression = search]

\* the restart flag and the new search expression applied to the session
GetBegin(s, restart, search) ==
    LET s1 == IF restart THEN reset_enumeration(s) ELSE s
    IN  IF IsSome(search)
        THEN [s1 EXCEPT !.search_expression = search]
        ELSE s1

\* a loop that hands every entry to the output buffer
FileMatchAll(s, wname) == TRUE

\* whether the loop hands the peeked entry to the output buffer
FileMatch(s, wname) ==
    IF IsSome(s.search_expression)
    THEN prj_file_name_match(wname, Unwrap(s.search_expression))
    ELSE TRUE

\* prj_fill_dir_entry_buffer2 with n entries already in the buffer: the
\* buffer takes the first entry of a call and at most MaxCap entries; the
\* engine may also refuse an entry with another error
FillOutcomes(n) ==
    IF n >= MaxCap THEN {"full"}
    ELSE IF n = 0 THEN {"ok", "err"}
    ELSE {"ok", "full", "err"}

\* a loop that consumes the entry before it looks at the fill result
LoopTurnConsumesOnFull(s, file_match, fill, single) ==
    IF file_match /\ fill = "full"
    THEN [s |-> consume_entry(s), wrote |-> FALSE, stop |-> "full", result |-> Ok]
    ELSE IF file_match /\ fill = "err"
    THEN [s |-> s, wrote |-> FALSE, stop |-> "error", result |-> Err(E_FILL)]
    ELSE [s |-> consume_entry(s), wrote |-> file_match,
          stop |-> IF single THEN "single" ELSE "go", result |-> Ok]

\* a loop that consumes the entry before it looks at a fill error
LoopTurnConsumesOnError(s, file_match, fill, single) ==
    IF file_match /\ fill = "full"
    THEN [s |-> s, wrote |-> FALSE, stop |-> "full", result |-> Ok]
    ELSE IF file_match /\ fill = "err"
    THEN [s |-> consume_entry(s), wrote |-> FALSE, stop |-> "error",
          result |-> Err(E_FILL)]
    ELSE [s |-> consume_entry(s), wrote |-> file_match,
          stop |-> IF single THEN "single" ELSE "go", result |-> Ok]

\* one turn of the while loop on the peeked entry: the session afterwards,
\* whether the entry was written, why the loop stops ("go": it does not)
LoopTurn(s, file_match, fill, single) ==
    IF file_match /\ fill = "full"
    THEN [s |-> s, wrote |-> FALSE, stop |-> "full", result |-> Ok]
    ELSE IF file_match /\ fill = "err"
    THEN [s |-> s, wrote |-> FALSE, stop |-> "error", result |-> Err(E_FILL)]
    ELSE [s |-> consume_entry(s), wrote |-> file_match,
          stop |-> IF single THEN "single" ELSE "go", result |-> Ok]

\* the record the engine finds in the output buffer for an entry
Emitted(wname, entry) == [name |-> wname, info |-> get_basic_info(entry)]

\* observation of a session: the list the source returned and how often it
\* was asked, the records written since the Start or the last restart, the
\* filters those Gets ran under, the cursor at which the last finished Get
\* was cut short by a full buffer (-1: it was not), and whether the last
\* Get returned success with nothing written
NewHist(listed) ==
    [listed |-> listed, fetches |-> 1, out |-> << >>,
     filters |-> {}, resume |-> -1, lastEmpty |-> FALSE]

HistBegin(h, restart, s) ==
    LET h1 == IF restart THEN [h EXCEPT !.out = << >>, !.filters = {}] ELSE h
    IN  [h1 EXCEPT !.filters = @ \cup {s.search_expression},
                   !.lastEmpty = FALSE]

HistEnd(h, stop, s, n, result) ==
    [h EXCEPT !.resume = IF stop = "full" THEN s.current_entry ELSE -1,
              !.lastEmpty = (result.ok /\ n = 0)]

\* a register_enumeration that drops every other session
register_enumeration_alone(id, listed) ==
    MapInsert(EmptyMap, id, from_unsorted(id, listed))

\* a register_enumeration that keeps the session an id already has
register_enumeration_keeps(id, listed) ==
    IF id \in DOMAIN sessions THEN sessions
    ELSE MapInsert(sessions, id, from_unsorted(id, listed))

\* ProjectionContext::register_enumeration, `listed` being what
\* self.source.list_directory(&target) returned
register_enumeration(id, listed) ==
    MapInsert(sessions, id, from_unsorted(id, listed))

\* a finish_enumeration that clears the whole map
finish_enumeration_clears(id) == EmptyMap

\* ProjectionContext::finish_enumeration: the map afterwards
finish_enumeration(id) == MapRemove(sessions, id)

(* ---------------- start_directory_enumeration_callback ---------------- *)
\* the ids a Start can carry: one in use (a protocol anomaly), or a fresh
\* one; which fresh GUID the engine draws is immaterial, the smallest stands
\* for all of them
FreeIds == Ids \ DOMAIN sessions
StartIds ==
    (DOMAIN sessions) \cup { i \in FreeIds : \A j \in FreeIds : i <= j }

StartLock(t) ==
    /\ cb[t].pc = "entered" /\ cb[t].kind = "Start"
    /\ Acquire(t)
    /\ \E id \in StartIds :
          cb' = [cb EXCEPT ![t] = [pc |-> "start_list", kind |-> "Start",
                                   id |-> id]]
    /\ UNCHANGED << calls, bufs >>
    /\ UNCHANGED << lifeVars, enumVars >>

StartRegister(t) ==
    /\ cb[t].pc = "start_list"
    /\ \E target \in DirPaths : \E listed \in ListAnswers(target) :
          /\ sessions' = register_enumeration(cb[t].id, listed)
          /\ hist' = MapInsert(hist, cb[t].id, NewHist(listed))
    /\ cb' = [cb EXCEPT ![t] = [pc |-> "done", kind |-> "Start",
                                id |-> cb[t].id,
                                old_enumeration |->
                                    IF cb[t].id \in DOMAIN sessions
                                    THEN Some(sessions[cb[t].id]) ELSE None,
                                result |-> Ok]]
    /\ UNCHANGED << lock, calls, bufs >>
    /\ UNCHANGED << lifeVars >>

(* ----------------- end_directory_enumeration_callback ----------------- *)
EndLock(t) ==
    /\ cb[t].pc = "entered" /\ cb[t].kind = "End"
    /\ Acquire(t)
    /\ \E id \in Ids :
          /\ sessions' = finish_enumeration(id)
          /\ hist' = MapRemove(hist, id)
          /\ cb' = [cb EXCEPT ![t] = [pc |-> "done", kind |-> "End", id |-> id,
                                      found |-> id \in DOMAIN sessions,
                                      result |-> Ok]]
    /\ UNCHANGED << calls, bufs >>
    /\ UNCHANGED << lifeVars >>

(* ----------------- get_directory_enumeration_callback ----------------- *)
\* a Get whose lookup turns a missing session into an error status
GetLockUnknownFails(t) ==
    /\ cb[t].pc = "entered" /\ cb[t].kind = "Get"
    /\ Acquire(t)
    /\ \E id \in Ids, restart \in BOOLEAN, single \in BOOLEAN, arg \in SearchArgs :
          LET search == ConvertSearch(arg)
              call == [kind |-> "Get", id |-> id, restart |-> restart,
                       single |-> single, search |-> search, n |-> 0]
          IN  IF id \notin DOMAIN sessions
              THEN /\ cb' = [cb EXCEPT ![t] =
                               call @@ [pc |-> "done", known |-> FALSE,
                                        stop |-> "unknown",
                                        result |-> Err("ERROR_FILE_NOT_FOUND")]]
                   /\ UNCHANGED enumVars
              ELSE LET s == GetBegin(sessions[id], restart, search)
                   IN  /\ sessions' = [sessions EXCEPT ![id] = s]
                       /\ hist' = [hist EXCEPT ![id] = HistBegin(@, restart, s)]
                       /\ cb' = [cb EXCEPT ![t] =
                                   call @@ [pc |-> "get_loop", known |-> TRUE,
                                            filter_before |->
                                                sessions[id].search_expression,
                                            from |-> s.current_entry]]
    /\ UNCHANGED << calls, bufs >>
    /\ UNCHANGED << lifeVars >>

\* a Get whose restart flag rewinds every session of the table
GetLockRestartsAll(t) ==
    /\ cb[t].pc = "entered" /\ cb[t].kind = "Get"
    /\ Acquire(t)
    /\ \E id \in Ids, restart \in BOOLEAN, single \in BOOLEAN, arg \in SearchArgs :
          LET search == ConvertSearch(arg)
              call == [kind |-> "Get", id |-> id, restart |-> restart,
                       single |-> single, search |-> search, n |-> 0]
          IN  IF id \notin DOMAIN sessions
              THEN /\ cb' = [cb EXCEPT ![t] =
                               call @@ [pc |-> "done", known |-> FALSE,
                                        stop |-> "unknown", result |-> Ok]]
                   /\ UNCHANGED enumVars
              ELSE LET s == GetBegin(sessions[id], restart, search)
                   IN  /\ sessions' = [i \in DOMAIN sessions |->
                                         IF i = id THEN s
                                         ELSE IF restart
                                         THEN reset_enumeration(sessions[i])
                                         ELSE sessions[i]]
                       /\ hist' = [hist EXCEPT ![id] = HistBegin(@, restart, s)]
                       /\ cb' = [cb EXCEPT ![t] =
                                   call @@ [pc |-> "get_loop", known |-> TRUE,
                                            filter_before |->
                                                sessions[id].search_expression,
                                            from |-> s.current_entry]]
    /\ UNCHANGED << calls, bufs >>
    /\ UNCHANGED << lifeVars >>

\* lock, look the session up, apply the restart flag and the expression
GetLock(t) ==
    /\ cb[t].pc = "entered" /\ cb[t].kind = "Get"
    /\ Acquire(t)
    /\ \E id \in Ids, restart \in BOOLEAN, single \in BOOLEAN, arg \in SearchArgs :
          LET search == ConvertSearch(arg)
              call == [kind |-> "Get", id |-> id, restart |-> restart,
                       single |-> single, search |-> search, n |-> 0]
          IN  IF id \notin DOMAIN sessions
              THEN /\ cb' = [cb EXCEPT ![t] =
                               call @@ [pc |-> "done", known |-> FALSE,
                                        stop |-> "unknown", result |-> Ok]]
                   /\ UNCHANGED enumVars
              ELSE LET s == GetBegin(sessions[id], restart, search)
                   IN  /\ sessions' = [sessions EXCEPT ![id] = s]
                       /\ hist' = [hist EXCEPT ![id] = HistBegin(@, restart, s)]
                       /\ cb' = [cb EXCEPT ![t] =
                                   call @@ [pc |-> "get_loop", known |-> TRUE,
                                            filter_before |->
                                                sessions[id].search_expression,
                                            from |-> s.current_entry]]
    /\ UNCHANGED << calls, bufs >>
    /\ UNCHANGED << lifeVars >>

\* one turn of `while let Some(entry) = enumeration.peek_entry()`
GetIter(t) ==
    /\ cb[t].pc = "get_loop"
    /\ LET id == cb[t].id
           s == sessions[id]
           peeked == peek_entry(s)
       IN  IF ~IsSome(peeked)
           THEN /\ cb' = [cb EXCEPT ![t] =
                            [x \in (DOMAIN cb[t]) \cup {"stop", "result"} |->
                               IF x = "pc" THEN "done"
                               ELSE IF x = "stop" THEN "end"
                               ELSE IF x = "result" THEN Ok
                               ELSE cb[t][x]]]
                /\ hist' = [hist EXCEPT ![id] = HistEnd(@, "end", s, cb[t].n, Ok)]
                /\ UNCHANGED sessions
           ELSE LET entry == Unwrap(peeked)
                    cache == get_or_cache(s.name_cache, entry.name)
                    wname == cache[entry.name]
                    sc == [s EXCEPT !.name_cache = cache]
                IN  \E fill \in FillOutcomes(cb[t].n) :
                       LET turn == LoopTurn(sc, FileMatch(sc, wname), fill,
                                            cb[t].single)
                           n2 == IF turn.wrote THEN cb[t].n + 1 ELSE cb[t].n
                           h1 == IF turn.wrote
                                 THEN [hist[id] EXCEPT
                                         !.out = Append(@, Emitted(wname, entry))]
                                 ELSE hist[id]
                       IN  /\ sessions' = [sessions EXCEPT ![id] = turn.s]
                           /\ IF turn.stop = "go"
                              THEN /\ cb' = [cb EXCEPT ![t].n = n2]
                                   /\ hist' = [hist EXCEPT ![id] = h1]
                              ELSE /\ cb' = [cb EXCEPT ![t] =
                                               [x \in (DOMAIN cb[t]) \cup
                                                      {"stop", "result"} |->
                                                  IF x = "pc" THEN "done"
                                                  ELSE IF x = "n" THEN n2
                                                  ELSE IF x = "stop" THEN turn.stop
                                                  ELSE IF x = "result" THEN turn.result
                                                  ELSE cb[t][x]]]
                                   /\ hist' = [hist EXCEPT ![id] =
                                                 HistEnd(h1, turn.stop, turn.s, n2,
                                                         turn.result)]
    /\ UNCHANGED << lock, calls, bufs >>
    /\ UNCHANGED << lifeVars >>

(* --------------- get_placeholder_information_callback ----------------- *)
\* the paths the engine asks placeholder information for
FilePaths ==
    { RootPath, << NameA >>, << NameUpperB >>, << NameUpperB, NameLowerB >> }

\* Path::parent().unwrap_or_default() and Path::file_name()
parent(path) == IF path = << >> THEN << >> ELSE SubSeq(path, 1, Len(path) - 1)
file_name(path) == IF path = << >> THEN None ELSE Some(path[Len(path)])

\* a lookup that takes the last entry of that name
get_directory_entry_last(path, listing) ==
    IF ~IsSome(file_name(path)) THEN None
    ELSE LET hits == { i \in 1..Len(listing) :
                         listing[i].name = Unwrap(file_name(path)) }
         IN  IF hits = {} THEN None
             ELSE Some(listing[CHOOSE i \in hits : \A j \in hits : i >= j])

\* ProjectedFileSystemSource::get_directory_entry, the default method,
\* `listing` being what self.list_directory(&directory) returns
get_directory_entry(path, listing) ==
    IF ~IsSome(file_name(path)) THEN None
    ELSE LET hits == { i \in 1..Len(listing) :
                         listing[i].name = Unwrap(file_name(path)) }
         IN  IF hits = {} THEN None
             ELSE Some(listing[CHOOSE i \in hits : \A j \in hits : i <= j])

\* path.display().to_string(): the components joined by '\' (92)
RECURSIVE Display(_)
Display(path) ==
    IF path = << >> THEN << >>
    ELSE IF Len(path) = 1 THEN path[1]
    ELSE path[1] \o << 92 >> \o Display(Tail(path))

PlaceholderLock(t) ==
    /\ cb[t].pc = "entered" /\ cb[t].kind = "Placeholder"
    /\ Acquire(t)
    /\ \E path \in FilePaths :
          cb' = [cb EXCEPT ![t] = [pc |-> "ph_lookup", kind |-> "Placeholder",
                                   path |-> path]]
    /\ UNCHANGED << calls, bufs >>
    /\ UNCHANGED << lifeVars, enumVars >>

\* a lookup that reports a missing entry with the code of a failed read
PlaceholderLookupIoError(t) ==
    /\ cb[t].pc = "ph_lookup"
    /\ \E listing \in ListAnswers(parent(cb[t].path)) :
       LET entry == get_directory_entry(cb[t].path, listing)
       IN  IF IsSome(entry)
           THEN cb' = [cb EXCEPT ![t] = [pc |-> "ph_write", kind |-> "Placeholder",
                                         path |-> cb[t].path, entry |-> entry]]
           ELSE cb' = [cb EXCEPT ![t] = [pc |-> "done", kind |-> "Placeholder",
                                         path |-> cb[t].path, entry |-> entry,
                                         written |-> None,
                                         result |-> Err("ERROR_IO_INCOMPLETE")]]
    /\ UNCHANGED << lock, calls, bufs >>
    /\ UNCHANGED << lifeVars, enumVars >>

\* context.source.get_directory_entry(&path).ok_or(ERROR_FILE_NOT_FOUND)?
PlaceholderLookup(t) ==
    /\ cb[t].pc = "ph_lookup"
    /\ \E listing \in ListAnswers(parent(cb[t].path)) :
       LET entry == get_directory_entry(cb[t].path, listing)
       IN  IF IsSome(entry)
           THEN cb' = [cb EXCEPT ![t] = [pc |-> "ph_write", kind |-> "Placeholder",
                                         path |-> cb[t].path, entry |-> entry]]
           ELSE cb' = [cb EXCEPT ![t] = [pc |-> "done", kind |-> "Placeholder",
                                         path |-> cb[t].path, entry |-> entry,
                                         written |-> None,
                                         result |-> Err("ERROR_FILE_NOT_FOUND")]]
    /\ UNCHANGED << lock, calls, bufs >>
    /\ UNCHANGED << lifeVars, enumVars >>

\* prj_write_placeholder_info(..).map_err(|err| err.code())?
PlaceholderWrite(t) ==
    /\ cb[t].pc = "ph_write"
    /\ \E ok \in BOOLEAN :
          cb' = [cb EXCEPT ![t] =
                   [pc |-> "done", kind |-> "Placeholder", path |-> cb[t].path,
                    entry |-> cb[t].entry,
                    written |-> IF ok
                                THEN Some([name |-> EncodeWide(Display(cb[t].path)),
                                           info |-> get_basic_info(Unwrap(cb[t].entry))])
                                ELSE None,
                    result |-> IF ok THEN Ok ELSE Err("E_WRITE_PLACEHOLDER")]]
    /\ UNCHANGED << lock, calls, bufs >>
    /\ UNCHANGED << lifeVars, enumVars >>

(* ------------------------ get_file_data_callback ---------------------- *)
\* length of the projected file the requests are for
FileLen == 5
\* largest length of a data request
MaxReq == 5
\* the chunk limit of the callback, 1024 * 1024 in the source, scaled
ChunkMax == 2

\* the file's content: byte i is i & 0xFF, as in the tests
Content == [i \in 1..FileLen |-> (i - 1) % 256]

\* Win32 code of Foundation::ERROR_IO_INCOMPLETE
ERROR_IO_INCOMPLETE == 996

\* HRESULT::from_win32: code 0 is S_OK, any other code is the failure HRESULT
\* of facility WIN32 that carries the low 16 bits of the code
from_win32(error) ==
    IF error = 0 THEN S_OK
    ELSE CASE error % 65536 = 5 -> "ERROR_ACCESS_DENIED"
           [] error % 65536 = ERROR_IO_INCOMPLETE -> "ERROR_IO_INCOMPLETE"

\* an io_result_to_hresult that gives every error the generic code
io_result_to_hresult_generic(error) == "ERROR_IO_INCOMPLETE"

\* utils::io_result_to_hresult: the HRESULT of the error's OS code, or of
\* ERROR_IO_INCOMPLETE when it has none
io_result_to_hresult(error) ==
    from_win32(IF IsSome(error.raw_os_error) THEN Unwrap(error.raw_os_error)
               ELSE ERROR_IO_INCOMPLETE)

\* std::io::Error values a Data Source may answer with: one without an OS
\* code, one carrying the Win32 error code 5 (access denied)
IoErrors == { [raw_os_error |-> None], [raw_os_error |-> Some(5)] }

\* stream_file_content of the test source: a reader over the requested
\* range, or an error without OS code when the range leaves the file; any
\* source may also fail with an error of its own
StreamOutcomes(off, len) ==
    (IF off + len <= FileLen
     THEN { [ok |-> TRUE, reader |-> SubSeq(Content, off + 1, off + len)] }
     ELSE { [ok |-> FALSE, error |-> [raw_os_error |-> None]] })
    \cup { [ok |-> FALSE, error |-> e] : e \in IoErrors }

FileDataLock(t) ==
    /\ cb[t].pc = "entered" /\ cb[t].kind = "FileData"
    /\ Acquire(t)
    /\ \E off \in 0..1, len \in 0..MaxReq :
          cb' = [cb EXCEPT ![t] = [pc |-> "fd_open", kind |-> "FileData",
                                   byte_offset |-> off, length |-> len,
                                   buffer |-> FALSE, wrote |-> << >>]]
    /\ UNCHANGED << calls, bufs >>
    /\ UNCHANGED << lifeVars, enumVars >>

\* context.source.stream_file_content(..).map_err(io_result_to_hresult)?
FileDataOpen(t) ==
    /\ cb[t].pc = "fd_open"
    /\ \E r \in StreamOutcomes(cb[t].byte_offset, cb[t].length) :
          IF r.ok
          THEN cb' = [cb EXCEPT ![t] =
                        [pc |-> "fd_alloc", reader |-> r.reader] @@ cb[t]]
          ELSE cb' = [cb EXCEPT ![t] =
                        [pc |-> "done", refused |-> r.error,
                         result |-> Err(io_result_to_hresult(r.error))]
                        @@ cb[t]]
    /\ UNCHANGED << lock, calls, bufs >>
    /\ UNCHANGED << lifeVars, enumVars >>

\* a chunk length without the limit
ChunkLengthWhole(length) == length

\* the chunk length of the request
ChunkLength(length) == IF length <= ChunkMax THEN length ELSE ChunkMax

\* an allocate that hands out a PrjAlignedBuffer around the null pointer: the
\* callback fails for want of memory, and the buffer's Drop runs on return
FileDataAllocOwnsNull(t) ==
    /\ cb[t].pc = "fd_alloc"
    /\ \E ok \in BOOLEAN :
          IF ok
          THEN /\ cb' = [cb EXCEPT ![t] =
                           [pc |-> "fd_loop", buffer |-> TRUE,
                            buffer_len |-> ChunkLength(cb[t].length),
                            bytes_written |-> 0] @@ cb[t]]
               /\ bufs' = bufs + 1
          ELSE /\ cb' = [cb EXCEPT ![t] =
                           [pc |-> "done", buffer |-> TRUE,
                            result |-> Err("ERROR_OUTOFMEMORY")]
                           @@ cb[t]]
               /\ bufs' = bufs
    /\ UNCHANGED << lock, calls >>
    /\ UNCHANGED << lifeVars, enumVars >>

\* PrjAlignedBuffer::allocate(..).ok_or(ERROR_OUTOFMEMORY)?
FileDataAlloc(t) ==
    /\ cb[t].pc = "fd_alloc"
    /\ \E ok \in BOOLEAN :
          IF ok
          THEN /\ cb' = [cb EXCEPT ![t] =
                           [pc |-> "fd_loop", buffer |-> TRUE,
                            buffer_len |-> ChunkLength(cb[t].length),
                            bytes_written |-> 0] @@ cb[t]]
               /\ bufs' = bufs + 1
          ELSE /\ cb' = [cb EXCEPT ![t] =
                           [pc |-> "done", result |-> Err("ERROR_OUTOFMEMORY")]
                           @@ cb[t]]
               /\ bufs' = bufs
    /\ UNCHANGED << lock, calls >>
    /\ UNCHANGED << lifeVars, enumVars >>

Min(a, b) == IF a <= b THEN a ELSE b

\* source.read_exact(&mut buffer[0..chunk_length]): the reader may fail
ReadOutcomes == { [ok |-> TRUE] } \cup { [ok |-> FALSE, error |-> e] : e \in IoErrors }

\* a loop that hands every chunk to the host at the offset of the request
FileDataChunkSameOffset(t) ==
    /\ cb[t].pc = "fd_loop"
    /\ LET c == cb[t]
           chunk_length == Min(c.length - c.bytes_written, c.buffer_len)
       IN  IF c.bytes_written >= c.length
           THEN cb' = [cb EXCEPT ![t] = [pc |-> "done", result |-> Ok] @@ c]
           ELSE \E read \in ReadOutcomes, write_ok \in BOOLEAN :
                   IF ~read.ok
                   THEN cb' = [cb EXCEPT ![t] =
                                 [pc |-> "done",
                                  result |-> Err(io_result_to_hresult(read.error))] @@ c]
                   ELSE IF ~write_ok
                   THEN cb' = [cb EXCEPT ![t] =
                                 [pc |-> "done", reader |-> SubSeq(c.reader, chunk_length + 1, Len(c.reader)),
                                  result |-> Err("E_WRITE_FILE_DATA")] @@ c]
                   ELSE cb' = [cb EXCEPT ![t] =
                                 [reader |-> SubSeq(c.reader, chunk_length + 1, Len(c.reader)),
                                  wrote |-> Append(c.wrote,
                                     [byte_offset |-> c.byte_offset,
                                      data |-> SubSeq(c.reader, 1, chunk_length)]),
                                  bytes_written |-> c.bytes_written + chunk_length]
                                 @@ c]
    /\ UNCHANGED << lock, calls, bufs >>
    /\ UNCHANGED << lifeVars, enumVars >>

\* a loop that goes on to the next chunk when a write-back failed
FileDataChunkSkipsFailedWrite(t) ==
    /\ cb[t].pc = "fd_loop"
    /\ LET c == cb[t]
           chunk_length == Min(c.length - c.bytes_written, c.buffer_len)
       IN  IF c.bytes_written >= c.length
           THEN cb' = [cb EXCEPT ![t] = [pc |-> "done", result |-> Ok] @@ c]
           ELSE \E read \in ReadOutcomes, write_ok \in BOOLEAN :
                   IF ~read.ok
                   THEN cb' = [cb EXCEPT ![t] =
                                 [pc |-> "done",
                                  result |-> Err(io_result_to_hresult(read.error))] @@ c]
                   ELSE cb' = [cb EXCEPT ![t] =
                                 [reader |-> SubSeq(c.reader, chunk_length + 1, Len(c.reader)),
                                  wrote |-> IF write_ok
                                            THEN Append(c.wrote,
                                                   [byte_offset |-> c.byte_offset + c.bytes_written,
                                                    data |-> SubSeq(c.reader, 1, chunk_length)])
                                            ELSE c.wrote,
                                  bytes_written |-> c.bytes_written + chunk_length]
                                 @@ c]
    /\ UNCHANGED << lock, calls, bufs >>
    /\ UNCHANGED << lifeVars, enumVars >>

\* one turn of `while bytes_written < length`: read_exact into the buffer,
\* then prj_write_file_data at byte_offset + bytes_written
FileDataChunk(t) ==
    /\ cb[t].pc = "fd_loop"
    /\ LET c == cb[t]
           chunk_length == Min(c.length - c.bytes_written, c.buffer_len)
       IN  IF c.bytes_written >= c.length
           THEN cb' = [cb EXCEPT ![t] = [pc |-> "done", result |-> Ok] @@ c]
           ELSE \E read \in ReadOutcomes, write_ok \in BOOLEAN :
                   IF ~read.ok
                   THEN cb' = [cb EXCEPT ![t] =
                                 [pc |-> "done",
                                  result |-> Err(io_result_to_hresult(read.error))] @@ c]
                   ELSE IF ~write_ok
                   THEN cb' = [cb EXCEPT ![t] =
                                 [pc |-> "done", reader |-> SubSeq(c.reader, chunk_length + 1, Len(c.reader)),
                                  result |-> Err("E_WRITE_FILE_DATA")] @@ c]
                   ELSE cb' = [cb EXCEPT ![t] =
                                 [reader |-> SubSeq(c.reader, chunk_length + 1, Len(c.reader)),
                                  wrote |-> Append(c.wrote,
                                     [byte_offset |-> c.byte_offset + c.bytes_written,
                                      data |-> SubSeq(c.reader, 1, chunk_length)]),
                                  bytes_written |-> c.bytes_written + chunk_length]
                                 @@ c]
    /\ UNCHANGED << lock, calls, bufs >>
    /\ UNCHANGED << lifeVars, enumVars >>

(* ------------------------ notification_callback ----------------------- *)
\* the native notification kinds the callback knows
KnownNotifications ==
    { "NEW_FILE_CREATED", "FILE_OPENED", "FILE_HANDLE_CLOSED_FILE_DELETED",
      "FILE_HANDLE_CLOSED_FILE_MODIFIED", "FILE_HANDLE_CLOSED_NO_MODIFICATION",
      "FILE_OVERWRITTEN", "PRE_RENAME", "FILE_RENAMED", "PRE_SET_HARDLINK",
      "HARDLINK_CREATED", "FILE_PRE_CONVERT_TO_FULL", "PRE_DELETE" }

\* what the engine hands the callback: the file id, the directory flag, the
\* FilePathName of the callback data (null or a path) and the destination
\* file name (null or a path)
NotifyArgs ==
    { [file_id |-> 1, is_directory |-> FALSE,
       file_path |-> None, destination |-> None],
      [file_id |-> 2, is_directory |-> TRUE,
       file_path |-> Some(<< NameUpperB >>), destination |-> Some(<< NameA >>)] }

\* Option<PathBuf>::unwrap_or_default
unwrap_or_default(o) == IF IsSome(o) THEN Unwrap(o) ELSE << >>

\* a target that always says "not a directory"
TargetFileNoFlag(args) ==
    [file_id |-> args.file_id, is_directory |-> FALSE,
     path |-> unwrap_or_default(args.file_path)]

\* ProjectedFile { file_id, is_directory, path } built by the closure
TargetFile(args) ==
    [file_id |-> args.file_id, is_directory |-> args.is_directory,
     path |-> unwrap_or_default(args.file_path)]

\* FileRenameInfo { source, destination } built in the rename arms
RenameInfo(args) ==
    [source |-> args.file_path, destination |-> args.destination]

\* the match on the native kind: the Notification variant built from it
\* and what the variant carries
ToNotification(native, args) ==
    CASE native = "NEW_FILE_CREATED" ->
            [variant |-> "FileCreated", target_file |-> TargetFile(args)]
      [] native = "FILE_OPENED" ->
            [variant |-> "FileOpened", target_file |-> TargetFile(args)]
      [] native = "FILE_HANDLE_CLOSED_FILE_DELETED" ->
            [variant |-> "FileClosed", target_file |-> TargetFile(args),
             action |-> "Deleted"]
      [] native = "FILE_HANDLE_CLOSED_FILE_MODIFIED" ->
            [variant |-> "FileClosed", target_file |-> TargetFile(args),
             action |-> "Modified"]
      [] native = "FILE_HANDLE_CLOSED_NO_MODIFICATION" ->
            [variant |-> "FileClosed", target_file |-> TargetFile(args),
             action |-> "NoModification"]
      [] native = "FILE_OVERWRITTEN" ->
            [variant |-> "FileOverwritten", target_file |-> TargetFile(args)]
      [] native = "PRE_RENAME" ->
            [variant |-> "PreFileRename", rename_info |-> RenameInfo(args)]
      [] native = "FILE_RENAMED" ->
            [variant |-> "FileRenamed", rename_info |-> RenameInfo(args)]
      [] native = "PRE_SET_HARDLINK" ->
            [variant |-> "PreSetHardlink", target_file |-> TargetFile(args)]
      [] native = "HARDLINK_CREATED" ->
            [variant |-> "HardlinkCreated", target_file |-> TargetFile(args)]
      [] native = "FILE_PRE_CONVERT_TO_FULL" ->
            [variant |-> "FilePreConvertToFull", target_file |-> TargetFile(args)]
      [] native = "PRE_DELETE" ->
            [variant |-> "PreFileDelete", target_file |-> TargetFile(args)]

\* an is_cancelable that leaves out the hardlink pre-notification
is_cancelable_without_hardlink(notification) ==
    notification.variant \in {"PreFileRename", "PreFileDelete", "FilePreConvertToFull"}

\* Notification::is_cancelable
is_cancelable(notification) ==
    notification.variant \in
        {"PreFileRename", "PreFileDelete", "PreSetHardlink", "FilePreConvertToFull"}

\* an unknown kind that is answered under the context lock
NotifyInvalidLocks(t) ==
    /\ cb[t].pc = "entered" /\ cb[t].kind = "Notify"
    /\ Acquire(t)
    /\ cb' = [cb EXCEPT ![t] = [pc |-> "done", kind |-> "Notify",
                                native |-> "invalid", result |-> Ok]]
    /\ UNCHANGED << calls, bufs >>
    /\ UNCHANGED << lifeVars, enumVars >>

\* a native kind outside the match: log and return Ok(()) before any lock
NotifyInvalid(t) ==
    /\ cb[t].pc = "entered" /\ cb[t].kind = "Notify"
    /\ cb' = [cb EXCEPT ![t] = [pc |-> "done_unlocked", kind |-> "Notify",
                                native |-> "invalid", result |-> Ok]]
    /\ UNCHANGED << lock, calls, bufs >>
    /\ UNCHANGED << lifeVars, enumVars >>

\* execute returns the result of a closure that never locked
ReturnUnlocked(t) ==
    /\ cb[t].pc = "done_unlocked"
    /\ cb' = [cb EXCEPT ![t] = IdleCb]
    /\ UNCHANGED << lock, calls, bufs >>
    /\ UNCHANGED << lifeVars, enumVars >>

\* a known kind: the Notification is built, then the context is locked
NotifyLock(t) ==
    /\ cb[t].pc = "entered" /\ cb[t].kind = "Notify"
    /\ Acquire(t)
    /\ \E native \in KnownNotifications, args \in NotifyArgs :
          cb' = [cb EXCEPT ![t] = [pc |-> "nf_handle", kind |-> "Notify",
                                   native |-> native, args |-> args,
                                   notification |-> ToNotification(native, args)]]
    /\ UNCHANGED << calls, bufs >>
    /\ UNCHANGED << lifeVars, enumVars >>

\* a verdict that fails the operation on every Break
NotifyHandleAnyBreak(t) ==
    /\ cb[t].pc = "nf_handle"
    /\ \E action \in {"Continue", "Break"} :
          cb' = [cb EXCEPT ![t] =
                   [pc |-> "done", action |-> action,
                    result |-> IF action = "Break"
                               THEN Err("STATUS_CANNOT_DELETE")
                               ELSE Ok] @@ cb[t]]
    /\ UNCHANGED << lock, calls, bufs >>
    /\ UNCHANGED << lifeVars, enumVars >>

\* a closure that calls lock() again before it asks the handler: the mutex is
\* not reentrant, so the second lock() waits for the thread's own guard
NotifyHandleRelocks(t) ==
    /\ cb[t].pc = "nf_handle"
    /\ Acquire(t)
    /\ \E action \in {"Continue", "Break"} :
          cb' = [cb EXCEPT ![t] =
                   [pc |-> "done", action |-> action,
                    result |-> IF action = "Break" /\ is_cancelable(cb[t].notification)
                               THEN Err("STATUS_CANNOT_DELETE")
                               ELSE Ok] @@ cb[t]]
    /\ UNCHANGED << calls, bufs >>
    /\ UNCHANGED << lifeVars, enumVars >>

\* context.source.handle_notification(&notification) and the verdict
NotifyHandle(t) ==
    /\ cb[t].pc = "nf_handle"
    /\ \E action \in {"Continue", "Break"} :
          cb' = [cb EXCEPT ![t] =
                   [pc |-> "done", action |-> action,
                    result |-> IF action = "Break" /\ is_cancelable(cb[t].notification)
                               THEN Err("STATUS_CANNOT_DELETE")
                               ELSE Ok] @@ cb[t]]
    /\ UNCHANGED << lock, calls, bufs >>
    /\ UNCHANGED << lifeVars, enumVars >>

(* ---------------------------- specification --------------------------- *)
\* the steps of a callback after the engine has invoked it
CallbackStep(t) ==
    \/ StartLock(t)
    \/ StartRegister(t)
    \/ EndLock(t)
    \/ GetLock(t)
    \/ GetIter(t)
    \/ PlaceholderLock(t)
    \/ PlaceholderLookup(t)
    \/ PlaceholderWrite(t)
    \/ FileDataLock(t)
    \/ FileDataOpen(t)
    \/ FileDataAlloc(t)
    \/ FileDataChunk(t)
    \/ NotifyInvalid(t)
    \/ NotifyLock(t)
    \/ NotifyHandle(t)
    \/ Return(t)
    \/ ReturnUnlocked(t)

Next ==
    \/ NewLoadLibrary
    \/ NewMark
    \/ NewAlloc
    \/ NewStartOk
    \/ NewStartFail
    \/ DropStop
    \/ StopReturn
    \/ DropFree
    \/ \E t \in Threads : Invoke(t)
    \/ \E t \in Threads : CallbackStep(t)

Spec == Init /\ [][Next]_vars

\* the owner's thread runs Drop to its end, and a callback that has been
\* invoked runs on: Data Source calls, engine calls and lock() return
LiveSpec ==
    /\ Spec
    /\ WF_vars(StopReturn)
    /\ WF_vars(DropFree)
    /\ \A t \in Threads : WF_vars(CallbackStep(t))


(* ------------------- directory enumerations on their own -------------- *)
\* the instance as ProjectedFileSystem::new returns it on success
InitRunning ==
    /\ mainpc = "running"
    /\ newResult = "Ok"
    /\ library = [resolver |-> "none"]
    /\ marked = TRUE
    /\ ctx = "live"
    /\ frees = 0
    /\ engine = "running"
    /\ handle = TRUE
    /\ lock = NoThread
    /\ cb = [t \in Threads |-> IdleCb]
    /\ sessions = EmptyMap
    /\ hist = EmptyMap
    /\ bufs = 0
    /\ calls = 0

\* the enumeration callbacks of a running instance, issued one at a time
NextEnum ==
    \E t \in Threads :
        \/ InvokeSerial(t)
        \/ StartLock(t)
        \/ StartRegister(t)
        \/ EndLock(t)
        \/ GetLock(t)
        \/ GetIter(t)
        \/ Return(t)

EnumSpec == InitRunning /\ [][NextEnum]_vars

(* ------------- directory enumerations on concurrent threads ----------- *)
\* enumeration callbacks the engine invokes on any of its threads, a new one
\* while others are still running
MaxConcCalls == 4

InvokeEnum(t) ==
    /\ engine = "running"
    /\ cb[t].pc = "idle"
    /\ calls < MaxConcCalls
    /\ \E kind \in EnumKinds :
          cb' = [cb EXCEPT ![t] = [pc |-> "entered", kind |-> kind]]
    /\ calls' = calls + 1
    /\ UNCHANGED << lock, bufs >>
    /\ UNCHANGED << lifeVars, enumVars >>

\* the enumeration callbacks of a running instance, overlapping in time
NextConc ==
    \E t \in Threads :
        \/ InvokeEnum(t)
        \/ StartLock(t)
        \/ StartRegister(t)
        \/ EndLock(t)
        \/ GetLock(t)
        \/ GetIter(t)
        \/ Return(t)

ConcSpec == InitRunning /\ [][NextConc]_vars

(* ------------------- the default lookup on its own -------------------- *)
\* longest listing handed to the default lookup
MaxList == 3

\* entries a listing can hold, two of them of the same name
LookupPool == EntryPool \cup { DirEntry(NameA, 16, 1, 2, 3) }

\* a Data Source without a lookup of its own is asked for the entry of a
\* path, its list_directory answering with any listing
InitLookup ==
    /\ mainpc = "running"
    /\ newResult = "Ok"
    /\ library = [resolver |-> "none"]
    /\ marked = TRUE
    /\ ctx = "live"
    /\ frees = 0
    /\ engine = "running"
    /\ handle = TRUE
    /\ lock = NoThread
    /\ \E path \in FilePaths, listing \in SeqsUpTo(LookupPool, MaxList) :
          cb = [t \in Threads |->
                  IF t = FirstThread
                  THEN [pc |-> "lookup_call", path |-> path, listing |-> listing]
                  ELSE IdleCb]
    /\ sessions = EmptyMap
    /\ hist = EmptyMap
    /\ bufs = 0
    /\ calls = 0

\* the call of the default get_directory_entry
DefaultLookup ==
    /\ cb[FirstThread].pc = "lookup_call"
    /\ cb' = [cb EXCEPT ![FirstThread] =
                 [pc |-> "lookup_done",
                  entry |-> get_directory_entry(cb[FirstThread].path,
                                                cb[FirstThread].listing)]
                 @@ cb[FirstThread]]
    /\ UNCHANGED << lock, calls, bufs >>
    /\ UNCHANGED << lifeVars, enumVars >>

LookupSpec == InitLookup /\ [][DefaultLookup]_vars

(* ============================ properties ============================== *)
\* no callback of the instance is running
Quiescent == \A t \in Threads : cb[t].pc = "idle"

\* the program counters of a callback inside its step on the context
ContextPcs ==
    { "start_list", "get_loop", "ph_lookup", "ph_write", "fd_open", "fd_alloc",
      "fd_loop", "nf_handle", "done" }
InContextStep(t) == cb[t].pc \in ContextPcs

(* ---- C1 ---- *)
\* C1: whenever the boxed context is freed, no callback of the instance is
\* executing and none can start any more (the engine was never started or
\* its stop call has returned); after a successful new the context is freed
\* only once prj_stop_virtualizing has returned, and it is freed once.
C1_FreedOnlyAfterStop ==
    /\ ctx = "freed" => Quiescent /\ engine \in {"off", "stopped"}
    /\ ctx = "freed" /\ newResult = "Ok" => engine = "stopped"
    /\ frees <= 1

\* an instance that served callbacks has been dropped
C1_Witness == mainpc = "dropped" /\ ctx = "freed" /\ calls > 0

(* ---- C2 ---- *)
\* C2: the stop call has not returned while a callback of the instance is
\* still running, and once Drop has called stop, the stop returns and the
\* context is released, callbacks in flight only delaying it.
C2_StopWaitsAndCompletes ==
    /\ [](mainpc \in {"stopped", "dropped"} => Quiescent)
    /\ (mainpc = "stopping" ~> (engine = "stopped" /\ ctx = "freed"))

\* Drop has called stop while a file read holds the lock and another
\* callback waits for it
C2_Witness ==
    /\ mainpc = "stopping"
    /\ \E t, u \in Threads :
          t # u /\ cb[t].pc = "fd_loop" /\ lock = t /\ cb[u].pc = "entered"

(* ---- C3 ---- *)
\* C3: when new returned the StartProjection error, the context it had built
\* is freed (once), there is no ProjectedFileSystem value, the engine does not
\* run and no callback was or is invoked.
C3_StartFailureFreesContext ==
    newResult = "StartProjection" =>
        /\ ctx = "freed" /\ frees = 1
        /\ ~handle
        /\ engine = "off"
        /\ calls = 0 /\ Quiescent

C3_Witness == newResult = "StartProjection" /\ mainpc = "failed"

(* ---- C4 ---- *)
\* C4: when new returned the MarkProjectionRoot error, no context was ever
\* allocated, the engine was never started (so the callback table never
\* reached it) and new is over; and the engine is started, and the context
\* allocated, only after the root was marked.
C4_MarkFailureStopsNew ==
    /\ newResult = "MarkProjectionRoot" =>
          /\ mainpc = "failed"
          /\ ctx = "none" /\ frees = 0
          /\ engine = "off" /\ ~handle
          /\ calls = 0 /\ Quiescent
    /\ engine # "off" => marked
    /\ ctx # "none" => marked

C4_Witness == newResult = "MarkProjectionRoot" /\ ~marked

(* ---- C5 ---- *)
\* C5: a callback that is anywhere in its step on the context (between its
\* lock() and its return, Data Source calls and nested engine calls
\* included) holds the context lock, for each of the six operations; so at
\* most one callback is inside such a step, and the lock is held by nobody
\* else.
C5_LockHeldForWholeStep ==
    /\ \A t \in Threads : InContextStep(t) => lock = t
    /\ \A t, u \in Threads : InContextStep(t) /\ InContextStep(u) => t = u
    /\ lock # NoThread => InContextStep(lock)

\* a file-data callback is in its write loop, holding a buffer, while
\* another callback waits for the lock
C5_Witness ==
    \E t, u \in Threads :
        /\ t # u
        /\ cb[t].pc = "fd_loop" /\ HoldsBuffer(t) /\ cb[t].bytes_written > 0
        /\ cb[u].pc = "entered"


(* ---- C6 ---- *)
Count(x, s) == Cardinality({ i \in 1..Len(s) : s[i] = x })
Range(s) == { s[i] : i \in 1..Len(s) }
\* the two sequences hold the same elements, each as often
SameCollection(a, b) ==
    \A x \in Range(a) \cup Range(b) : Count(x, a) = Count(x, b)

\* what the host reads from the records a session emitted
HostEntries(out) == [i \in 1..Len(out) |-> HostEntry(out[i])]

\* the session ran without a filter so far
Unfiltered(id) == hist[id].filters \subseteq {None}

IsPrefix(a, b) == Len(a) <= Len(b) /\ a = SubSeq(b, 1, Len(a))

\* C7: the snapshot of a session holds the entries the source returned, each
\* as often, in non-decreasing order under the host's name comparison; two
\* sessions that were given the same list have the same snapshot, and what
\* they emitted without filter agrees entry by entry as far as both got.
C7_DeterministicListing ==
    /\ \A id \in DOMAIN sessions :
          LET entries == sessions[id].entries
          IN  /\ SameCollection(entries, hist[id].listed)
              /\ \A i, j \in 1..Len(entries) :
                    i < j => EntryCmp(entries[i], entries[j]) <= 0
    /\ \A id1, id2 \in DOMAIN sessions :
          hist[id1].listed = hist[id2].listed =>
              /\ sessions[id1].entries = sessions[id2].entries
              /\ Unfiltered(id1) /\ Unfiltered(id2) =>
                    \/ IsPrefix(hist[id1].out, hist[id2].out)
                    \/ IsPrefix(hist[id2].out, hist[id1].out)

\* two sessions were given the same out-of-order list and both emitted it
C7_Witness ==
    \E id1, id2 \in DOMAIN sessions :
        /\ id1 # id2
        /\ hist[id1].listed = hist[id2].listed
        /\ sessions[id1].entries # hist[id1].listed
        /\ Unfiltered(id1) /\ Unfiltered(id2)
        /\ Len(hist[id1].out) = 2 /\ Len(hist[id2].out) = 2

(* ---- C8 ---- *)
\* the records an unfiltered pass over the first n snapshot entries writes
EmittedUpTo(s, n) ==
    [i \in 1..n |-> Emitted(EncodeWide(s.entries[i].name), s.entries[i])]

\* C8: a Get that stopped on a full buffer returns success with the refused
\* entry still at the cursor; a Get without restart that follows it on the
\* same session begins at that cursor; and a session without filter has
\* emitted, at any moment, exactly the snapshot entries before its cursor, in
\* order: none skipped, none twice.
C8_FullBufferKeepsTheEntry ==
    /\ \A t \in Threads :
          cb[t].pc = "done" /\ cb[t].kind = "Get" /\ cb[t].stop = "full" =>
              LET s == sessions[cb[t].id]
              IN  /\ cb[t].result = Ok
                  /\ IsSome(peek_entry(s))
                  /\ FileMatch(s, EncodeWide(Unwrap(peek_entry(s)).name))
                  /\ hist[cb[t].id].resume = s.current_entry
    /\ \A t \in Threads :
          cb[t].pc = "get_loop" /\ ~cb[t].restart /\ hist[cb[t].id].resume >= 0 =>
              cb[t].from = hist[cb[t].id].resume
    /\ \A id \in DOMAIN sessions :
          Unfiltered(id) =>
              hist[id].out = EmittedUpTo(sessions[id], sessions[id].current_entry)

\* a Get without restart resumed at the entry a full buffer had refused and
\* has written it
C8_Witness ==
    \E t \in Threads :
        /\ cb[t].pc = "get_loop" /\ ~cb[t].restart
        /\ hist[cb[t].id].resume = 1 /\ cb[t].from = 1
        /\ cb[t].n = 1
        /\ Len(hist[cb[t].id].out) = 2

(* ---- C9 ---- *)
\* the snapshot positions a Get had before it when it began, whose entries
\* match the session's filter
MatchingAhead(t) ==
    LET s == sessions[cb[t].id]
    IN  { i \in (cb[t].from + 1)..Len(s.entries) :
            FileMatch(s, EncodeWide(s.entries[i].name)) }

\* C9: a Get with the single-entry flag that returns success, and had an
\* entry matching the active filter before it, has written exactly one
\* entry, and the cursor is behind the first matching one.
C9_SingleEntryWritesOne ==
    \A t \in Threads :
        (/\ cb[t].pc = "done" /\ cb[t].kind = "Get" /\ cb[t].known
         /\ cb[t].single /\ cb[t].result.ok
         /\ MatchingAhead(t) # {}) =>
            /\ cb[t].n = 1
            /\ \E i \in MatchingAhead(t) :
                  /\ \A j \in MatchingAhead(t) : i <= j
                  /\ sessions[cb[t].id].current_entry = i

(* ---- C10 ---- *)
\* C10: a Get with the restart flag begins at cursor 0, and its session's
\* filter is the expression the call carried (none, when it carried none or
\* the empty one); the snapshot is still the sorted list of the Start, and
\* the source was asked for it once.
C10_RestartResets ==
    \A t \in Threads :
        (/\ cb[t].pc \in {"get_loop", "done"} /\ cb[t].kind = "Get"
         /\ cb[t].known /\ cb[t].restart) =>
            LET id == cb[t].id
            IN  /\ cb[t].from = 0
                /\ sessions[id].search_expression = cb[t].search
                /\ cb[t].search \in {None, Some(<< 98, 42, 0 >>)}
                /\ sessions[id].entries = SortEntries(hist[id].listed)
                /\ hist[id].fetches = 1

\* a Get restarts, without a filter, a session whose last Get had been cut
\* short behind the first entry
C10_Witness ==
    \E t \in Threads :
        /\ cb[t].pc = "get_loop" /\ cb[t].restart
        /\ cb[t].search = None
        /\ hist[cb[t].id].resume >= 1
        /\ sessions[cb[t].id].current_entry = 0


(* ---- C11 ---- *)
\* a Get on a session it found, past its lock step
GetOnSession(t) ==
    cb[t].pc \in {"get_loop", "done"} /\ cb[t].kind = "Get" /\ cb[t].known

\* C11 (as claimed): a Get without the restart flag leaves the session's
\* filter as it was before the call, whatever expression the call carries.
C11_FilterOnlyOnRestart ==
    \A t \in Threads :
        GetOnSession(t) /\ ~cb[t].restart =>
            sessions[cb[t].id].search_expression = cb[t].filter_before

\* C11 (amended): a Get without the restart flag leaves the session's filter
\* as it was before the call unless the call carries a non-empty expression;
\* then the filter is that expression, as it is on a restart.
C11_FilterFollowsExpression ==
    \A t \in Threads :
        GetOnSession(t) /\ ~cb[t].restart =>
            sessions[cb[t].id].search_expression =
                IF cb[t].search = None THEN cb[t].filter_before ELSE cb[t].search

\* a Get without restart brought "b*" to a session that had no filter and
\* whose cursor was past the first entry
C11_Witness ==
    \E t \in Threads :
        /\ GetOnSession(t) /\ ~cb[t].restart
        /\ cb[t].filter_before = None
        /\ cb[t].search = Some(<< 98, 42, 0 >>)
        /\ cb[t].from >= 1


(* ---- C12 ---- *)
\* C12: a Get for an id without a session has returned success with nothing
\* written, and there is no session for the id afterwards and no list the
\* Data Source was asked for on its behalf; a restart flag or an expression
\* on the call changes nothing of this.
C12_UnknownIdGetSucceedsEmpty ==
    \A t \in Threads :
        cb[t].pc = "done" /\ cb[t].kind = "Get" /\ ~cb[t].known =>
            /\ cb[t].result = Ok
            /\ cb[t].n = 0
            /\ cb[t].id \notin DOMAIN sessions
            /\ cb[t].id \notin DOMAIN hist
            /\ DOMAIN hist = DOMAIN sessions

\* a restarting Get with an expression came for an id without a session
\* while another id has one
C12_Witness ==
    \E t \in Threads :
        /\ cb[t].pc = "done" /\ cb[t].kind = "Get" /\ ~cb[t].known
        /\ cb[t].restart /\ cb[t].search # None
        /\ sessions # EmptyMap


(* ---- C13 ---- *)
\* the step in which thread t runs the closure of an End
EndStep(t) ==
    cb[t].pc = "entered" /\ cb[t].kind = "End" /\ cb'[t].pc = "done"

\* C13: an End returns success, and afterwards exactly the session with its
\* id is gone: every other session is as before, and when the id had no
\* session the table is unchanged (and the callback has seen that it had
\* none).
C13_EndRemovesOnlyItsSession ==
    [][\A t \in Threads :
          EndStep(t) =>
              LET id == cb'[t].id
              IN  /\ cb'[t].result = Ok
                  /\ DOMAIN sessions' = (DOMAIN sessions) \ {id}
                  /\ \A other \in DOMAIN sessions' :
                        sessions'[other] = sessions[other]
                  /\ cb'[t].found = (id \in DOMAIN sessions)
                  /\ id \notin DOMAIN sessions => sessions' = sessions]_vars

\* an End has removed a session and left the other one, which has a cursor
\* past its first entry
C13_Witness ==
    \E t \in Threads :
        /\ cb[t].pc = "done" /\ cb[t].kind = "End" /\ cb[t].found
        /\ \E other \in DOMAIN sessions :
              other # cb[t].id /\ sessions[other].current_entry >= 1


(* ---- C14 ---- *)
\* C14: a Start has returned success and its id has a session with cursor 0,
\* no filter, nothing emitted and, as snapshot, the list the source returned
\* to this Start in the host's order; this also when the id had a session
\* before, of which nothing is left.
C14_StartOverwrites ==
    \A t \in Threads :
        cb[t].pc = "done" /\ cb[t].kind = "Start" =>
            LET id == cb[t].id
            IN  /\ cb[t].result = Ok
                /\ id \in DOMAIN sessions
                /\ sessions[id].id = id
                /\ sessions[id].current_entry = 0
                /\ sessions[id].search_expression = None
                /\ SameCollection(sessions[id].entries, hist[id].listed)
                /\ \A i, j \in 1..Len(sessions[id].entries) :
                      i < j => EntryCmp(sessions[id].entries[i],
                                        sessions[id].entries[j]) <= 0
                /\ hist[id].out = << >>

\* a Start has replaced a session that had a filter, a cursor past its first
\* entry and another snapshot
C14_Witness ==
    \E t \in Threads :
        /\ cb[t].pc = "done" /\ cb[t].kind = "Start"
        /\ IsSome(cb[t].old_enumeration)
        /\ Unwrap(cb[t].old_enumeration).current_entry >= 1
        /\ IsSome(Unwrap(cb[t].old_enumeration).search_expression)
        /\ Unwrap(cb[t].old_enumeration).entries # sessions[cb[t].id].entries


(* ---- C15 ---- *)
\* the step in which a Start registers a session for id
StartStepOn(id) ==
    \E t \in Threads :
        cb[t].pc = "start_list" /\ cb[t].id = id /\ cb'[t].pc = "done"

\* C15: the source was asked once for the list of a session, and no step
\* other than a Start on its id changes the session's snapshot or the list
\* it came from: not a Get, with or without restart or expression, nor any
\* callback on another id.
C15_SnapshotCapturedOnce ==
    /\ [](\A id \in DOMAIN sessions : hist[id].fetches = 1)
    /\ [][\A id \in DOMAIN sessions :
            id \in DOMAIN sessions' /\ ~StartStepOn(id) =>
                /\ sessions'[id].entries = sessions[id].entries
                /\ hist'[id].listed = hist[id].listed
                /\ hist'[id].fetches = hist[id].fetches]_vars

\* a restarting Get with an expression has run on a session whose snapshot
\* of two entries differs from the order of the source's list
C15_Witness ==
    \E t \in Threads :
        /\ cb[t].pc = "done" /\ cb[t].kind = "Get" /\ cb[t].known
        /\ cb[t].restart /\ cb[t].search # None
        /\ Len(sessions[cb[t].id].entries) = 2
        /\ sessions[cb[t].id].entries # hist[cb[t].id].listed


(* ---- C16 ---- *)
\* C16: a placeholder-info callback for which the Data Source had no entry
\* has returned the file-not-found status and written no placeholder,
\* whether the path is the root, a top-level name or a nested one.
C16_MissingEntryIsNotFound ==
    \A t \in Threads :
        (/\ cb[t].pc = "done" /\ cb[t].kind = "Placeholder"
         /\ cb[t].entry = None) =>
            /\ cb[t].result = Err("ERROR_FILE_NOT_FOUND")
            /\ cb[t].written = None

\* the Data Source had no entry for a nested path
C16_Witness ==
    \E t \in Threads :
        /\ cb[t].pc = "done" /\ cb[t].kind = "Placeholder"
        /\ cb[t].entry = None /\ Len(cb[t].path) = 2


(* ---- C17 ---- *)
\* the bytes of a sequence of written chunks, in issue order
RECURSIVE ConcatData(_)
ConcatData(w) ==
    IF w = << >> THEN << >> ELSE Head(w).data \o ConcatData(Tail(w))

\* C17: a file-data callback that returned success has handed to the host,
\* chunk after chunk, exactly the bytes of the file in the requested range:
\* the chunks joined in issue order are Content[offset .. offset + length),
\* and each chunk was written at the file offset where the one before ended,
\* for requests below and above the chunk limit.
C17_ChunksAreTheRange ==
    \A t \in Threads :
        (/\ cb[t].pc = "done" /\ cb[t].kind = "FileData" /\ cb[t].result.ok) =>
            /\ ConcatData(cb[t].wrote) =
                  SubSeq(Content, cb[t].byte_offset + 1,
                         cb[t].byte_offset + cb[t].length)
            /\ \A i \in 1..Len(cb[t].wrote) :
                  cb[t].wrote[i].byte_offset =
                      cb[t].byte_offset
                          + Len(ConcatData(SubSeq(cb[t].wrote, 1, i - 1)))

\* a request longer than the chunk limit was served in two chunks
C17_Witness ==
    \E t \in Threads :
        /\ cb[t].pc = "done" /\ cb[t].kind = "FileData" /\ cb[t].result.ok
        /\ cb[t].length > ChunkMax
        /\ Len(cb[t].wrote) = 2


(* ---- C18 ---- *)
\* a file-data callback that the Data Source refused the reader
ReaderRefused(t) ==
    cb[t].pc = "done" /\ cb[t].kind = "FileData" /\ "refused" \in DOMAIN cb[t]

PreNatives ==
    { "PRE_RENAME", "PRE_DELETE", "PRE_SET_HARDLINK", "FILE_PRE_CONVERT_TO_FULL" }

\* a notification callback whose handler has answered
NotifyAnswered(t) ==
    cb[t].pc = "done" /\ cb[t].kind = "Notify" /\ "action" \in DOMAIN cb[t]

\* C19: a notification callback fails exactly when the handler answered
\* Break and the kind is one of the four pre-notifications, and then with
\* STATUS_CANNOT_DELETE; Break on any other kind and Continue on every kind
\* give success; a callback whose kind is unknown never fails.
C19_BreakFailsOnlyCancelable ==
    \A t \in Threads :
        /\ NotifyAnswered(t) =>
              IF cb[t].action = "Break" /\ cb[t].native \in PreNatives
              THEN cb[t].result = Err("STATUS_CANNOT_DELETE")
              ELSE cb[t].result = Ok
        /\ (cb[t].pc = "done_unlocked" /\ cb[t].kind = "Notify") => cb[t].result = Ok

\* the handler answered Break to a notification that cannot be cancelled
C19_Witness ==
    \E t \in Threads :
        /\ NotifyAnswered(t)
        /\ cb[t].action = "Break"
        /\ cb[t].native = "FILE_RENAMED"
        /\ cb[t].result = Ok

(* ---- C20 ---- *)
\* C20: the Notification built from a native kind is cancelable exactly when
\* the kind is pre-rename, pre-delete, pre-set-hardlink or
\* pre-convert-to-full; created, opened, closed with any close action,
\* overwritten, renamed and hardlink-created are not.
C20_CancelableAreThePreKinds ==
    \A t \in Threads :
        (cb[t].pc \in {"nf_handle", "done"} /\ "notification" \in DOMAIN cb[t]) =>
            /\ is_cancelable(cb[t].notification) <=> cb[t].native \in PreNatives
            /\ cb[t].native \in
                  { "NEW_FILE_CREATED", "FILE_OPENED",
                    "FILE_HANDLE_CLOSED_FILE_DELETED",
                    "FILE_HANDLE_CLOSED_FILE_MODIFIED",
                    "FILE_HANDLE_CLOSED_NO_MODIFICATION",
                    "FILE_OVERWRITTEN", "FILE_RENAMED", "HARDLINK_CREATED" }
                  => ~is_cancelable(cb[t].notification)
            /\ cb[t].native \in PreNatives
                  \cup { "NEW_FILE_CREATED", "FILE_OPENED",
                         "FILE_HANDLE_CLOSED_FILE_DELETED",
                         "FILE_HANDLE_CLOSED_FILE_MODIFIED",
                         "FILE_HANDLE_CLOSED_NO_MODIFICATION",
                         "FILE_OVERWRITTEN", "FILE_RENAMED", "HARDLINK_CREATED" }

\* the handler is about to be asked about a hardlink pre-notification, which
\* is cancelable
C20_Witness ==
    \E t \in Threads :
        /\ cb[t].pc = "nf_handle"
        /\ cb[t].native = "PRE_SET_HARDLINK"
        /\ is_cancelable(cb[t].notification)

(* ---- C21 ---- *)
\* a callback whose closure has returned an error status
FailedDone(t) == cb[t].pc = "done" /\ ~cb[t].result.ok

\* C21: when a callback returns an error status, the return leaves the
\* instance as it was (the engine still serves callbacks, the context is
\* still allocated, the owner's position and the sessions are untouched),
\* the context lock is free afterwards and the thread can take the next
\* callback; and every callback in flight when one has failed, those
\* waiting for the lock behind it included, is served and returns.
C21_ErrorStaysInItsCall ==
    /\ [][\A t \in Threads :
            (FailedDone(t) /\ cb'[t].pc = "idle") =>
                /\ ctx = "live" /\ engine \in {"running", "stopping"}
                /\ UNCHANGED lifeVars
                /\ UNCHANGED sessions
                /\ lock' = NoThread
                /\ bufs' = 0]_vars
    /\ (\E t \in Threads : FailedDone(t)) ~> Quiescent

\* a file-data callback failed for want of memory while another callback
\* waits for the lock
C21_Witness ==
    \E t, u \in Threads :
        /\ t # u
        /\ FailedDone(t) /\ cb[t].result.code = "ERROR_OUTOFMEMORY"
        /\ cb[u].pc = "entered"

(* ---- C22 ---- *)
\* a file-data callback whose allocation of the aligned buffer succeeded and
\* that has not returned yet
Allocated(t) ==
    /\ cb[t].pc \in {"fd_loop", "done"}
    /\ cb[t].kind = "FileData"
    /\ "buffer_len" \in DOMAIN cb[t]

\* C22: the outstanding aligned buffers are exactly those of the file-data
\* callbacks in flight whose allocation succeeded, so none is outstanding
\* when no file-data callback is in flight and none is released twice; the
\* return of a callback releases one buffer if its allocation succeeded,
\* whatever its result, and none otherwise.
C22_BufferReleasedOnce ==
    /\ [](/\ bufs = Cardinality({ t \in Threads : Allocated(t) })
          /\ \A t \in Threads :
                (cb[t].pc = "done" /\ cb[t].result.code = "ERROR_OUTOFMEMORY")
                    => ~Allocated(t))
    /\ [][\A t \in Threads :
            (cb[t].pc = "done" /\ cb'[t].pc = "idle") =>
                bufs' = IF Allocated(t) THEN bufs - 1 ELSE bufs]_vars

\* the write-back of the second chunk failed: the callback is about to
\* return with its buffer
C22_Witness ==
    \E t \in Threads :
        /\ Allocated(t) /\ cb[t].pc = "done"
        /\ cb[t].result.code = "E_WRITE_FILE_DATA"
        /\ Len(cb[t].wrote) = 1
        /\ bufs = 1

(* ---- C23 ---- *)
\* a notification callback that has built its Notification
HasNotification(t) ==
    cb[t].pc \in {"nf_handle", "done"} /\ "notification" \in DOMAIN cb[t]

\* the target identity the engine gave the callback
CallIdentity(t) ==
    [file_id |-> cb[t].args.file_id, is_directory |-> cb[t].args.is_directory,
     path |-> IF cb[t].args.file_path = None THEN << >>
              ELSE cb[t].args.file_path[1]]

LookedUp == cb[FirstThread].pc = "lookup_done"

\* positions of the listing whose entry has the name of the path's final
\* component (none for the root path, which has no final component)
NamedLike(path, listing) ==
    { i \in 1..Len(listing) : path # << >> /\ listing[i].name = path[Len(path)] }

\* C24: the default lookup answers with the entry at the first position of
\* the parent's listing whose name equals the final component of the path,
\* and with nothing when there is no such position: no entry of that name,
\* an empty listing, or the root path.
C24_DefaultLookupFindsFirst ==
    LookedUp =>
        LET c == cb[FirstThread]
            hits == NamedLike(c.path, c.listing)
        IN  /\ hits = {} => c.entry = None
            /\ hits # {} =>
                  \E i \in hits :
                      /\ \A j \in hits : i <= j
                      /\ c.entry = << c.listing[i] >>
            /\ c.path = << >> => c.entry = None
            /\ c.listing = << >> => c.entry = None

\* the listing holds two entries of the looked-up name, the directory after
\* the file, and the lookup answered with the file
C24_Witness ==
    /\ LookedUp
    /\ Cardinality(NamedLike(cb[FirstThread].path, cb[FirstThread].listing)) = 2
    /\ cb[FirstThread].entry # None
    /\ cb[FirstThread].entry[1].kind = "File"
    /\ cb[FirstThread].listing[Len(cb[FirstThread].listing)].kind = "Directory"
    /\ cb[FirstThread].listing[Len(cb[FirstThread].listing)].name = NameA

(* ---- C25 ---- *)
\* a file-data callback whose closure has returned Ok
DataServed(t) == cb[t].pc = "done" /\ cb[t].kind = "FileData" /\ cb[t].result.ok

\* C25: in a successful data request of length n at offset a, with
\* c = min(n, ChunkMax), write-back i is issued at offset a + (i - 1) * c,
\* so each chunk starts where the one before ended; every chunk but the
\* last has length c, the last is not empty and not longer, none exceeds
\* ChunkMax, and the lengths add up to n.
C25_ChunkOffsetsPartition ==
    \A t \in Threads :
        DataServed(t) =>
            LET a == cb[t].byte_offset
                n == cb[t].length
                c == IF n <= ChunkMax THEN n ELSE ChunkMax
                w == cb[t].wrote
                total == IF w = << >> THEN 0
                         ELSE (Len(w) - 1) * c + Len(w[Len(w)].data)
            IN  /\ \A i \in 1..Len(w) :
                      /\ w[i].byte_offset = a + (i - 1) * c
                      /\ Len(w[i].data) <= ChunkMax
                      /\ Len(w[i].data) >= 1
                      /\ i < Len(w) => Len(w[i].data) = c
                      /\ i = Len(w) => Len(w[i].data) <= c
                /\ total = n

\* a request of more than two chunk limits was served in three chunks, the
\* last one shorter
C25_Witness ==
    \E t \in Threads :
        /\ DataServed(t)
        /\ cb[t].length > 2 * ChunkMax
        /\ Len(cb[t].wrote) = 3
        /\ Len(cb[t].wrote[3].data) < ChunkMax

(* ---- C26 ---- *)
\* a file-data callback that failed inside its loop, on reading or on
\* writing a chunk
FailedInLoop(t) ==
    /\ cb[t].pc = "done" /\ cb[t].kind = "FileData" /\ ~cb[t].result.ok
    /\ "bytes_written" \in DOMAIN cb[t]

\* C26: when reading or writing a chunk of a data request failed, the chunks
\* written are the ones before it, a contiguous prefix of the requested
\* range that stops short of its end; nothing was read from the reader
\* beyond the failing chunk (nothing beyond the written prefix when the read
\* failed); the result is that failure; and the callback does nothing more
\* but return, without a further read, write or retry.
C26_FailureAbortsRequest ==
    /\ [](\A t \in Threads :
            FailedInLoop(t) =>
                LET c == cb[t]
                    failing == Min(c.length - c.bytes_written, c.buffer_len)
                IN  /\ c.bytes_written < c.length
                    /\ Len(ConcatData(c.wrote)) = c.bytes_written
                    /\ ConcatData(c.wrote) =
                          SubSeq(Content, c.byte_offset + 1,
                                 c.byte_offset + c.bytes_written)
                    /\ \A i \in 1..Len(c.wrote) :
                          c.wrote[i].byte_offset =
                              c.byte_offset
                                  + Len(ConcatData(SubSeq(c.wrote, 1, i - 1)))
                    /\ IF c.result.code = "E_WRITE_FILE_DATA"
                       THEN Len(c.reader) = c.length - c.bytes_written - failing
                       ELSE /\ Len(c.reader) = c.length - c.bytes_written
                            /\ c.result.code
                                  \in {"ERROR_IO_INCOMPLETE", "ERROR_ACCESS_DENIED"})
    /\ [][\A t \in Threads :
            FailedInLoop(t) => (cb'[t] = cb[t] \/ cb'[t] = IdleCb)]_vars

\* the read of the third chunk failed after two chunks had been written
C26_Witness ==
    \E t \in Threads :
        /\ FailedInLoop(t)
        /\ cb[t].result.code = "ERROR_IO_INCOMPLETE"
        /\ Len(cb[t].wrote) = 2
        /\ cb[t].bytes_written = 2 * ChunkMax

(* ---- C27 ---- *)
\* the entries of s whose name the host matches against the zero-terminated
\* pattern, in the order of s
RECURSIVE MatchingOf(_, _)
MatchingOf(s, pattern) ==
    IF s = << >> THEN << >>
    ELSE LET rest == MatchingOf(SubSeq(s, 1, Len(s) - 1), pattern)
             last == s[Len(s)]
         IN  IF prj_file_name_match(Append(last.name, 0), pattern)
             THEN Append(rest, last)
             ELSE rest

\* every Get since the Start or the last restart ran under the same filter
OneFilter(id) ==
    Cardinality(hist[id].filters) = 1 /\ None \notin hist[id].filters

\* C27: while every Get of a session since its Start or last restart ran
\* under one filter, what the session has emitted is, entry by entry, the
\* entries among those consumed so far that match the filter, in snapshot
\* order; entries that do not match are consumed and emit nothing. Once the
\* snapshot is exhausted the emitted sequence is the matching subsequence of
\* the whole sorted snapshot.
C27_FilterEmitsMatchingSubsequence ==
    \A id \in DOMAIN sessions :
        OneFilter(id) =>
            LET s == sessions[id]
                pattern == (CHOOSE f \in hist[id].filters : TRUE)[1]
                consumed == SubSeq(s.entries, 1, s.current_entry)
            IN  /\ HostEntries(hist[id].out) = MatchingOf(consumed, pattern)
                /\ s.current_entry = Len(s.entries) =>
                      HostEntries(hist[id].out) = MatchingOf(s.entries, pattern)

\* a snapshot of two entries was exhausted under the filter "b*": the
\* directory B was emitted, the file a was consumed without output
C27_Witness ==
    \E id \in DOMAIN sessions :
        /\ OneFilter(id)
        /\ Len(sessions[id].entries) = 2
        /\ sessions[id].current_entry = 2
        /\ Len(hist[id].out) = 1
        /\ HostEntries(hist[id].out)[1].name = NameUpperB

(* ---- C28 ---- *)
\* a Get that ended because the engine refused an entry with an error other
\* than buffer-full
FillFailed(t) == cb[t].pc = "done" /\ cb[t].kind = "Get" /\ cb[t].stop = "error"

\* C28: a Get that ended on a fill error other than buffer-full returns the
\* engine's error code; the refused entry is still at the cursor; and the
\* cursor stands behind everything the call went through before it: the
\* entries between the cursor the call began at and the present one are
\* consumed, those among them that match the filter are the ones the call
\* wrote, and they are the last ones emitted.
C28_FillErrorKeepsProgress ==
    \A t \in Threads :
        FillFailed(t) =>
            LET s == sessions[cb[t].id]
                out == hist[cb[t].id].out
                passed == SubSeq(s.entries, cb[t].from + 1, s.current_entry)
                written == SelectSeq(passed,
                              LAMBDA e : FileMatch(s, EncodeWide(e.name)))
            IN  /\ cb[t].result = Err(E_FILL)
                /\ cb[t].result.code # S_OK
                /\ s.current_entry >= cb[t].from
                /\ s.current_entry < Len(s.entries)
                /\ FileMatch(s, EncodeWide(s.entries[s.current_entry + 1].name))
                /\ cb[t].n = Len(written)
                /\ Len(out) >= cb[t].n
                /\ HostEntries(SubSeq(out, Len(out) - cb[t].n + 1, Len(out)))
                      = written

\* the engine refused the second entry of a call with an error: the first
\* one stays written and consumed
C28_Witness ==
    \E t \in Threads :
        /\ FillFailed(t)
        /\ cb[t].n = 1
        /\ sessions[cb[t].id].current_entry = cb[t].from + 1

(* ---- C29 ---- *)
\* C29: the session table holds an id exactly when a Start for it has been
\* processed and no End for it since (the ids under observation); a step
\* that adds an id is the registration of a Start for that id, a step that
\* removes one is an End for that id, and no step of a Get, placeholder,
\* file-data or notification callback changes the set of ids.
C29_OnlyStartAndEndChangeTable ==
    /\ [](DOMAIN sessions = DOMAIN hist)
    /\ [][/\ \A id \in (DOMAIN sessions') \ (DOMAIN sessions) :
               \E t \in Threads :
                   /\ cb[t].pc = "start_list" /\ cb[t].id = id
                   /\ cb'[t].pc = "done"
          /\ \A id \in (DOMAIN sessions) \ (DOMAIN sessions') :
               \E t \in Threads :
                   /\ cb[t].pc = "entered" /\ cb[t].kind = "End"
                   /\ cb'[t].pc = "done" /\ cb'[t].id = id
          /\ \A t \in Threads :
               (/\ cb[t].pc # "idle" /\ cb'[t] # cb[t]
                /\ cb[t].kind \in {"Get", "Placeholder", "FileData", "Notify"})
                   => DOMAIN sessions' = DOMAIN sessions]_vars

\* a file-data callback has been served while a session was open
C29_Witness ==
    /\ DOMAIN sessions # {}
    /\ \E t \in Threads :
          cb[t].pc = "done" /\ cb[t].kind = "FileData" /\ cb[t].result.ok

(* ---- C30 ---- *)
\* load_library has failed with the dynamic resolver
DynamicLoadFailed == library.resolver = "dynamic"

\* loading the module failed with OS error 126
ModuleNotFound ==
    /\ DynamicLoadFailed
    /\ library.load = "LoadLibraryExW"
    /\ library.raw_os_error = << 126 >>

\* C30: new returned WindowsFeatureNotEnabled exactly when loading the
\* module failed with OS error 126, and LibraryError exactly when the load
\* failed in any other way or an entry point of the loaded module did not
\* resolve; and in both cases new is over with the root unmarked, no context
\* allocated and the engine never started.
C30_FeatureErrorOnlyForMissingModule ==
    /\ (newResult = "WindowsFeatureNotEnabled") <=> ModuleNotFound
    /\ (newResult = "LibraryError") <=> (DynamicLoadFailed /\ ~ModuleNotFound)
    /\ DynamicLoadFailed =>
          /\ library.load = "Ok" => ~library.resolved
          /\ mainpc = "failed"
          /\ ~marked /\ ctx = "none" /\ engine = "off" /\ ~handle
          /\ calls = 0
    /\ library.resolver \in {"none", "dynamic"}

\* loading the module failed with an OS error other than 126 and new
\* returned the library error
C30_Witness ==
    /\ DynamicLoadFailed
    /\ library.load = "LoadLibraryExW"
    /\ library.raw_os_error = << 127 >>
    /\ newResult = "LibraryError"
    /\ ~marked

(* ---- C31 ---- *)
\* a placeholder callback that has handed the basic info of its entry to the
\* host
PlaceholderWritten(t) ==
    cb[t].pc = "done" /\ cb[t].kind = "Placeholder" /\ cb[t].written # None

\* C31: the basic info handed to the host for an entry has the change time
\* equal to the last-write time; creation, last-access and last-write time
\* are the entry's, bit for bit (the host's signed field read as unsigned);
\* the directory flag is set exactly for a Directory entry; the size is the
\* entry's for a File entry and 0 for a Directory entry.
C31_BasicInfoMirrorsEntry ==
    \A t \in Threads :
        PlaceholderWritten(t) =>
            LET e == cb[t].entry[1]
                info == cb[t].written[1].info
            IN  /\ info.ChangeTime = info.LastWriteTime
                /\ AsUnsigned(info.ChangeTime) = e.last_write_time
                /\ AsUnsigned(info.CreationTime) = e.creation_time
                /\ AsUnsigned(info.LastAccessTime) = e.last_access_time
                /\ AsUnsigned(info.LastWriteTime) = e.last_write_time
                /\ info.IsDirectory <=> (e.kind = "Directory")
                /\ e.kind = "File" => AsUnsigned(info.FileSize) = e.size
                /\ e.kind = "Directory" => info.FileSize = 0

\* the info of a file whose three times differ from one another was handed
\* to the host
C31_Witness ==
    \E t \in Threads :
        /\ PlaceholderWritten(t)
        /\ cb[t].entry[1].kind = "File"
        /\ cb[t].entry[1].creation_time # cb[t].entry[1].last_write_time
        /\ cb[t].entry[1].last_access_time # cb[t].entry[1].last_write_time
        /\ cb[t].written[1].info.FileSize # 0

(* ---- C32 ---- *)
\* the session of id is replaced in this step by a Start on the same id
Reregistered(id) ==
    \E t \in Threads :
        cb[t].pc = "start_list" /\ cb[t].id = id /\ cb'[t].pc = "done"

\* C32: every entry of a session's filename cache is the name followed by
\* one zero; and as long as the session lives, a step keeps every entry of
\* the cache with the buffer it had: entries are only added, none is removed
\* or replaced, and asking for a cached name leaves the cache as it is.
C32_CacheInsertOnly ==
    /\ [](\A id \in DOMAIN sessions :
            \A n \in DOMAIN sessions[id].name_cache :
                /\ sessions[id].name_cache[n] = n \o << 0 >>
                /\ as_wide(sessions[id].name_cache[n]) = n)
    /\ [][\A id \in (DOMAIN sessions) \cap (DOMAIN sessions') :
            ~Reregistered(id) =>
                \A n \in DOMAIN sessions[id].name_cache :
                    /\ n \in DOMAIN sessions'[id].name_cache
                    /\ sessions'[id].name_cache[n] = sessions[id].name_cache[n]]_vars

\* a Get has written both entries of a snapshot whose names the sort had
\* cached already
C32_Witness ==
    \E t \in Threads :
        /\ cb[t].pc = "done" /\ cb[t].kind = "Get" /\ cb[t].known
        /\ cb[t].n = 2
        /\ Cardinality(DOMAIN sessions[cb[t].id].name_cache) = 2

(* ---- C33 ---- *)
\* C33: the boxed context is never freed twice, and it is freed exactly when
\* it has been dropped once; when the life of the instance is over it has
\* been freed once: inside new when starting the engine failed (no handle
\* ever existed), or by the Drop of the handle after a successful new; a new
\* that failed earlier never allocated one.
C33_ContextFreedExactlyOnce ==
    /\ frees \in {0, 1}
    /\ (ctx = "freed") <=> (frees = 1)
    /\ mainpc = "dropped" =>
          frees = 1 /\ newResult = "Ok" /\ ~handle
    /\ newResult = "StartProjection" =>
          frees = 1 /\ mainpc = "failed" /\ ~handle
    /\ (mainpc = "failed" /\ newResult # "StartProjection") =>
          frees = 0 /\ ctx = "none"
    /\ handle => frees = 0 /\ ctx = "live"

\* the handle of a successfully started instance has been dropped and the
\* context freed by it
C33_Witness ==
    /\ mainpc = "dropped"
    /\ newResult = "Ok"
    /\ frees = 1
    /\ ~handle

(* ---- C34 ---- *)
\* C34: a thread takes the context lock only when nobody holds it and only
\* as the first step of its callback, so never a second time; whatever the
\* closure's result, a callback that returns leaves the lock free if it held
\* it and never keeps it; and once a callback has been invoked and is about
\* to lock, waiting behind another callback's guard or not, the callbacks
\* in flight all return (the engine invokes a bounded number of them).
C34_LockReleasedOnEveryPath ==
    /\ [][\A t \in Threads :
            /\ (lock' = t /\ lock # t) =>
                  lock = NoThread /\ cb[t].pc = "entered"
            /\ (cb[t].pc # "idle" /\ cb'[t].pc = "idle") =>
                  /\ lock' # t
                  /\ lock = t => lock' = NoThread
                  /\ lock # t => lock' = lock]_vars
    /\ (\E t \in Threads : cb[t].pc = "entered") ~> Quiescent

\* a callback waits for the lock while a notification callback holds it and
\* is about to ask the handler
C34_Witness ==
    \E t, u \in Threads :
        /\ t # u
        /\ cb[t].pc = "nf_handle" /\ lock = t
        /\ cb[u].pc = "entered" /\ cb[u].kind # "Notify"

(* ---- C35 ---- *)
\* the step is the lock step of a Get with the restart flag on session id
RestartStep(id) ==
    \E t \in Threads :
        /\ cb[t].pc = "entered" /\ cb[t].kind = "Get"
        /\ cb'[t].pc = "get_loop" /\ cb'[t].id = id /\ cb'[t].restart

\* C35: the cursor of every session lies between 0 and the number of
\* entries of its snapshot; no step makes the cursor of a living session
\* smaller, within a Get or from one Get to the next, except the lock step
\* of a Get that carries the restart flag, which sets it to 0; and a Get that
\* starts its loop with the cursor at the end writes nothing, leaves the
\* cursor there and returns success.
C35_CursorBoundedAndMonotone ==
    /\ [](\A id \in DOMAIN sessions :
            /\ sessions[id].current_entry >= 0
            /\ sessions[id].current_entry <= Len(sessions[id].entries))
    /\ [](\A t \in Threads :
            (/\ cb[t].pc = "done" /\ cb[t].kind = "Get" /\ cb[t].known
             /\ cb[t].from = Len(sessions[cb[t].id].entries)) =>
                /\ cb[t].n = 0
                /\ cb[t].result = Ok
                /\ cb[t].stop = "end"
                /\ sessions[cb[t].id].current_entry = cb[t].from)
    /\ [][\A id \in (DOMAIN sessions) \cap (DOMAIN sessions') :
            (/\ ~Reregistered(id)
             /\ sessions'[id].current_entry < sessions[id].current_entry) =>
                RestartStep(id) /\ sessions'[id].current_entry = 0]_vars

\* a Get without the restart flag finds the cursor of a session of two
\* entries at the end, where earlier Gets of the session had left it
C35_Witness ==
    \E t \in Threads :
        /\ cb[t].pc = "done" /\ cb[t].kind = "Get" /\ cb[t].known
        /\ ~cb[t].restart
        /\ Len(sessions[cb[t].id].entries) = 2
        /\ cb[t].from = 2

(* ---- C36 ---- *)
\* the callback of thread t carries an enumeration id before or after the step
HasId(t) == "id" \in DOMAIN cb[t] \/ "id" \in DOMAIN cb'[t]
ActingId(t) == IF "id" \in DOMAIN cb'[t] THEN cb'[t].id ELSE cb[t].id

\* C36: a step of a Start, Get or End callback for an id leaves every
\* session of another id in the table and as it was (snapshot, cursor,
\* filter and name cache), whichever threads the callbacks run on and however
\* their steps interleave; the invocation of a callback changes no session.
C36_OtherSessionsUntouched ==
    [][\A t \in Threads :
          cb'[t] # cb[t] =>
              IF HasId(t)
              THEN \A other \in (DOMAIN sessions) \ {ActingId(t)} :
                      /\ other \in DOMAIN sessions'
                      /\ sessions'[other].entries = sessions[other].entries
                      /\ sessions'[other].current_entry =
                            sessions[other].current_entry
                      /\ sessions'[other].search_expression =
                            sessions[other].search_expression
                      /\ sessions'[other] = sessions[other]
              ELSE sessions' = sessions]_vars

\* a Get restarts a session and gives it a filter while the other session
\* has a filter of its own and its cursor past the first entry
C36_Witness ==
    \E t \in Threads :
        /\ cb[t].pc = "get_loop" /\ cb[t].restart /\ cb[t].search # None
        /\ \E other \in (DOMAIN sessions) \ {cb[t].id} :
              /\ sessions[other].current_entry >= 1
              /\ IsSome(sessions[other].search_expression)

(* ---- C37 ---- *)
\* the records the Get of thread t has written: the last n of its session
WrittenBy(t) ==
    LET out == hist[cb[t].id].out
    IN  SubSeq(out, Len(out) - cb[t].n + 1, Len(out))

\* the snapshot entries between the cursor the Get of thread t began at and
\* the present cursor that the session's filter lets through
PassedBy(t) ==
    LET s == sessions[cb[t].id]
        passed == SubSeq(s.entries, cb[t].from + 1, s.current_entry)
    IN  IF IsSome(s.search_expression)
        THEN MatchingOf(passed, Unwrap(s.search_expression))
        ELSE passed

\* C37: Gets that the engine runs at the same time, on the same session or
\* not, take turns as wholes. While a Get is on its session it holds the
\* lock, the cursor stands at or behind the one it began at, and what it has
\* written are exactly the entries between the two that pass the filter; a
\* Get without restart begins at the cursor its predecessor left; and the
\* cursor of a session moves only in a step of the callback that holds, or
\* takes, the lock for that id. So the stretches of the snapshot two such
\* Gets go through are adjacent and disjoint: no entry is written by both,
\* none is skipped between them, and the cursor ends behind both stretches.
C37_ConcurrentGetsAreAtomic ==
    /\ [](\A t \in Threads :
            GetOnSession(t) =>
                /\ lock = t
                /\ cb[t].from <= sessions[cb[t].id].current_entry
                /\ HostEntries(WrittenBy(t)) = PassedBy(t))
    /\ [][\A t \in Threads :
            (/\ cb[t].pc = "entered" /\ cb[t].kind = "Get"
             /\ cb'[t].pc = "get_loop" /\ ~cb'[t].restart) =>
                /\ cb'[t].from = sessions[cb'[t].id].current_entry
                /\ sessions'[cb'[t].id].current_entry = cb'[t].from]_vars
    /\ [][\A id \in (DOMAIN sessions) \cap (DOMAIN sessions') :
            (/\ ~Reregistered(id)
             /\ sessions'[id].current_entry # sessions[id].current_entry) =>
                \E t \in Threads :
                    /\ lock' = t
                    /\ cb'[t].kind = "Get" /\ cb'[t].id = id]_vars

\* a Get without restart has begun behind the entry an earlier Get of the
\* session had consumed and has written the next one, while a Get on the
\* other thread waits for the lock
C37_Witness ==
    \E t, u \in Threads :
        /\ t # u
        /\ cb[t].pc = "done" /\ cb[t].kind = "Get" /\ cb[t].known
        /\ ~cb[t].restart
        /\ cb[t].from >= 1 /\ cb[t].n >= 1
        /\ cb[u].pc = "entered" /\ cb[u].kind = "Get"

(* ---- C38 ---- *)
\* C38: a notification callback whose kind is unknown has success as its
\* result without the handler having answered, does not hold the lock, and
\* neither its step nor its return changes the lock, the sessions or any
\* other part of the instance, also while another callback holds the lock;
\* a notification callback that went through the context has one of the
\* twelve known kinds, and its handler was asked in one step, taken from
\* the state in which the thread held the lock, and is not asked again.
C38_UnknownKindBypassesContext ==
    /\ [](\A t \in Threads :
            /\ (cb[t].pc = "done_unlocked") =>
                  /\ cb[t].kind = "Notify"
                  /\ cb[t].native \notin KnownNotifications
                  /\ cb[t].result = Ok
                  /\ "action" \notin DOMAIN cb[t]
                  /\ lock # t
            /\ (cb[t].pc \in {"nf_handle", "done"} /\ cb[t].kind = "Notify") =>
                  /\ cb[t].native \in KnownNotifications
                  /\ lock = t
                  /\ ("action" \in DOMAIN cb[t]) <=> (cb[t].pc = "done"))
    /\ [][\A t \in Threads :
            /\ (/\ cb'[t] # cb[t]
                /\ (cb'[t].pc = "done_unlocked" \/ cb[t].pc = "done_unlocked")) =>
                  UNCHANGED << lock, sessions, hist, bufs, lifeVars >>
            /\ (/\ cb[t].pc # "idle" /\ cb[t].kind = "Notify"
                /\ "action" \notin DOMAIN cb[t]
                /\ cb'[t].pc # "idle" /\ "action" \in DOMAIN cb'[t]) =>
                  /\ cb[t].pc = "nf_handle" /\ lock = t
                  /\ cb'[t].pc = "done" /\ lock' = t
            /\ (cb[t].pc # "idle" /\ "action" \in DOMAIN cb[t]) =>
                  cb'[t].pc = "idle" \/ cb'[t] = cb[t]]_vars

\* a notification of unknown kind has been answered while a file-data
\* callback holds the lock in its write loop
C38_Witness ==
    \E t, u \in Threads :
        /\ t # u
        /\ cb[t].pc = "done_unlocked" /\ cb[t].native = "invalid"
        /\ cb[u].pc = "fd_loop" /\ lock = u

(* ---- C39 ---- *)
\* a file-data callback whose closure has returned the out-of-memory status
OutOfMemory(t) ==
    /\ cb[t].pc = "done" /\ cb[t].kind = "FileData"
    /\ cb[t].result = Err("ERROR_OUTOFMEMORY")

\* C39: a file-data callback fails with the out-of-memory status exactly by
\* the allocation of its buffer failing; it then has the reader the Data
\* Source gave it with every byte of the requested range still unread, has
\* written nothing, owns no buffer, and neither the failing step nor the
\* return releases a buffer: the number of buffers outstanding stays as it
\* is, those of other callbacks included.
C39_AllocationFailureTouchesNothing ==
    /\ [](\A t \in Threads :
            OutOfMemory(t) =>
                /\ "reader" \in DOMAIN cb[t]
                /\ cb[t].reader = SubSeq(Content, cb[t].byte_offset + 1,
                                         cb[t].byte_offset + cb[t].length)
                /\ Len(cb[t].reader) = cb[t].length
                /\ cb[t].wrote = << >>
                /\ ~HoldsBuffer(t)
                /\ "bytes_written" \notin DOMAIN cb[t]
                /\ "buffer_len" \notin DOMAIN cb[t])
    /\ [][\A t \in Threads :
            /\ (cb[t].pc = "fd_alloc" /\ cb'[t].pc = "done") =>
                  /\ cb'[t].result = Err("ERROR_OUTOFMEMORY")
                  /\ cb'[t].reader = cb[t].reader
                  /\ bufs' = bufs
            /\ (cb[t].pc # "done" /\ OutOfMemory(t)') =>
                  cb[t].pc = "fd_alloc"
            /\ (OutOfMemory(t) /\ cb'[t] # cb[t]) =>
                  cb'[t].pc = "idle" /\ bufs' = bufs]_vars

\* the allocation failed for a request of several chunks whose reader the
\* Data Source had handed out
C39_Witness ==
    \E t \in Threads :
        /\ OutOfMemory(t)
        /\ cb[t].length > ChunkMax
        /\ Len(cb[t].reader) = cb[t].length

====
